---- MODULE Spec2Model ----
(***************************************************************************)
(* SIP calculator and mutual-fund portfolio analytics.                     *)
(*                                                                         *)
(* The module models                                                       *)
(*   - the calculator page (calculate, calculateReverseSIP, calculateTax)  *)
(*     as a state machine over the page's form fields and result fields;   *)
(*   - the pure helpers of the portfolio page (calculateCAGR,              *)
(*     calculateReturns, detectCategory, the allocation table of           *)
(*     createDiversifiedPortfolio, the rate a fund is projected at) as     *)
(*     calls applied to bounded inputs;                                    *)
(*   - the auto mode of the portfolio page (generateAutoPortfolio and the  *)
(*     fund resolution of createDiversifiedPortfolio) as an asynchronous   *)
(*     process, one step per awaited answer of the NAV provider;           *)
(*   - the manual mode (addFundToPortfolioBySchemeCode,                    *)
(*     removeFundFromPortfolio) with its calls interleaved at the await.   *)
(*                                                                         *)
(* JavaScript numbers are modelled as exact rationals extended with the    *)
(* IEEE special values NaN, +Infinity, -Infinity and the signed zero.  On  *)
(* the inputs the model draws (small integers, halves and quarters) the    *)
(* IEEE double operations of the projection are exact, so the rational     *)
(* value is the value the program computes.  The tax rates 0.30 and 0.20   *)
(* and irrational roots are taken at their mathematical value.             *)
(***************************************************************************)
EXTENDS Integers, Sequences, FiniteSets, TLC

VARIABLES
    form,          \* calculator page: the input fields of the form
    currentMode,   \* calculator page: 'forward' | 'reverse'
    out,           \* calculator page: the result fields written by calculate()
    call,          \* portfolio helpers: the call being made (function and arguments)
    ret,           \* portfolio helpers: the value the call returned
    gen,           \* auto mode: the activation of generateAutoPortfolio and of
                   \* the createDiversifiedPortfolio it awaits (position, locals)
    lookups,       \* auto mode: the results createDiversifiedPortfolio awaited, in order
    apiCache,      \* portfolio page: the scheme codes held by apiCache.latest / navData
    env,           \* the provider's failed requests and the user's clicks so far
    currentPortfolio,  \* manual mode: currentPortfolio (funds)
    adds,          \* manual mode: the addFundToPortfolioBySchemeCode calls awaiting
                   \* their fund details
    localStorage,  \* the mf_cache_ entries of the browser's localStorage
    onboardingState  \* calculator page: onboardingState of the onboarding wizard

vars == <<form, currentMode, out, call, ret, gen, lookups, apiCache, env,
          currentPortfolio, adds, localStorage, onboardingState>>

\* the state of the portfolio page
portfolioVars == <<gen, lookups, apiCache, env, currentPortfolio, adds, localStorage>>

\* onboardingState as the script declares it
OnboardingData ==
    [goal |-> "null", budget |-> 5000, duration |-> 10, risk |-> "medium",
     targetCorpus |-> 1000000]
OnboardingDeclared == [currentStep |-> 0, totalSteps |-> 4, data |-> OnboardingData]

NoGeneration == [pc |-> "idle"]
EmptyCache == [latest |-> {}, navData |-> {}]
\* the mf_cache_ keys written for one scheme, and the general marker
StorageKeys == {"nav_latest", "nav_history", "nav_data_general"}
NoEntry == [k |-> "none"]
EmptyStorage == [key \in StorageKeys |-> NoEntry]

\* the portfolio page as its script leaves it when loaded
PortfolioPageLoaded ==
    /\ gen = NoGeneration
    /\ lookups = << >>
    /\ apiCache = EmptyCache
    /\ env = [failed |-> 0, clicks |-> 0]
    /\ currentPortfolio = [funds |-> << >>]
    /\ adds = {}
    /\ localStorage = EmptyStorage
    /\ onboardingState = OnboardingDeclared

---------------------------------------------------------------------------
(* JavaScript values                                                       *)

Abs(i) == IF i < 0 THEN -i ELSE i

RECURSIVE Gcd(_, _)
Gcd(a, b) == IF b = 0 THEN a ELSE Gcd(b, a % b)

\* A finite number n/d in lowest terms, d > 0.  neg is the sign bit; it is
\* what tells -0 from +0.
Fin(n, d) ==
    LET g == Gcd(Abs(n), Abs(d))
        s == IF d < 0 THEN -1 ELSE 1
    IN [k |-> "fin", n |-> (s * n) \div g, d |-> (s * d) \div g, neg |-> (s * n < 0)]

Int2Num(i) == [k |-> "fin", n |-> i, d |-> 1, neg |-> (i < 0)]
Zero(neg)  == [k |-> "fin", n |-> 0, d |-> 1, neg |-> neg]
Inf(neg)   == [k |-> "inf", n |-> 0, d |-> 1, neg |-> neg]
NaN        == [k |-> "nan", n |-> 0, d |-> 1, neg |-> FALSE]
Null       == [k |-> "null", n |-> 0, d |-> 1, neg |-> FALSE]
\* An irrational finite result of Math.pow(n/d, 1/y), y > 1: kept symbolically
\* as the radicand and the index; neg is FALSE (the root of a positive number).
Root(x, y) == [k |-> "root", n |-> x.n, d |-> x.d, neg |-> FALSE, y |-> y]

IsZero(x) == x.k = "fin" /\ x.n = 0
IsFinite(x) == x.k = "fin"
\* ToBoolean: null, NaN, +0 and -0 are falsy.
Falsy(x) == x.k = "null" \/ x.k = "nan" \/ IsZero(x)

Neg(x) ==
    IF x.k = "nan" THEN NaN
    ELSE IF x.k = "inf" THEN Inf(~x.neg)
    ELSE [k |-> "fin", n |-> -x.n, d |-> x.d, neg |-> ~x.neg]

Mul(a, b) ==
    LET s == (a.neg # b.neg) IN
    IF a.k = "nan" \/ b.k = "nan" THEN NaN
    ELSE IF a.k = "inf" \/ b.k = "inf"
         THEN IF IsZero(a) \/ IsZero(b) THEN NaN ELSE Inf(s)
    ELSE IF a.n = 0 \/ b.n = 0 THEN Zero(s)
    ELSE Fin(a.n * b.n, a.d * b.d)

Div(a, b) ==
    LET s == (a.neg # b.neg) IN
    IF a.k = "nan" \/ b.k = "nan" THEN NaN
    ELSE IF a.k = "inf" THEN (IF b.k = "inf" THEN NaN ELSE Inf(s))
    ELSE IF b.k = "inf" THEN Zero(s)
    ELSE IF b.n = 0 THEN (IF a.n = 0 THEN NaN ELSE Inf(s))
    ELSE IF a.n = 0 THEN Zero(s)
    ELSE Fin(a.n * b.d, a.d * b.n)

Add(a, b) ==
    IF a.k = "nan" \/ b.k = "nan" THEN NaN
    ELSE IF a.k = "inf"
         THEN (IF b.k = "inf" /\ a.neg # b.neg THEN NaN ELSE a)
    ELSE IF b.k = "inf" THEN b
    ELSE IF a.n = 0 /\ b.n = 0 THEN Zero(a.neg /\ b.neg)
    ELSE LET n == a.n * b.d + b.n * a.d
         IN IF n = 0 THEN Zero(FALSE) ELSE Fin(n, a.d * b.d)

Sub(a, b) == Add(a, Neg(b))

\* a < b and a <= b on numbers; every comparison with NaN is false.
Lt(a, b) ==
    IF a.k = "nan" \/ b.k = "nan" THEN FALSE
    ELSE IF a.k = "inf" THEN a.neg /\ ~(b.k = "inf" /\ b.neg)
    ELSE IF b.k = "inf" THEN ~b.neg
    ELSE a.n * b.d < b.n * a.d

Le(a, b) ==
    IF a.k = "nan" \/ b.k = "nan" THEN FALSE
    ELSE Lt(a, b) \/ (a.k = b.k /\ (a.k = "inf" => a.neg = b.neg)
                      /\ (a.k = "fin" => a.n * b.d = b.n * a.d))

\* Math.pow(x, e) for an integer exponent e.  pow(x, 0) is 1 for every x,
\* NaN included.
RECURSIVE PowNat(_, _)
PowNat(x, e) == IF e = 0 THEN Int2Num(1) ELSE Mul(x, PowNat(x, e - 1))

PowInt(x, e) ==
    IF e >= 0 THEN PowNat(x, e) ELSE Div(Int2Num(1), PowNat(x, -e))

\* floor(n / d) for d > 0
FloorDiv(n, d) == IF n >= 0 THEN n \div d ELSE -((-n + d - 1) \div d)

\* Math.round: the nearest integer, ties towards +Infinity; NaN and the
\* infinities are returned as they are; a result of zero keeps the sign.
Round(x) ==
    IF x.k # "fin" THEN x
    ELSE LET r == FloorDiv(2 * x.n + x.d, 2 * x.d)
         IN IF r = 0 THEN Zero(x.neg) ELSE Int2Num(r)

---------------------------------------------------------------------------
(* calculateCAGR (portfolio page)                                          *)

\* The exact y-th root of the positive rational x when it is rational,
\* searched among the rationals p/q with p, q <= the radicand's parts.
RatRoots(x, y) ==
    { pq \in (1..x.n) \X (1..x.d) :
        /\ PowNat(Int2Num(pq[1]), y).n = x.n
        /\ PowNat(Int2Num(pq[2]), y).n = x.d }

\* Math.pow(x, 1 / years) for an integer years > 0.  1/1 is the exponent 1;
\* for years > 1 the exponent is a fraction, and the power of a negative
\* base is NaN.
PowInv(x, years) ==
    IF x.k = "nan" THEN NaN
    ELSE IF years = 1 THEN x
    ELSE IF x.k = "inf" THEN (IF x.neg THEN NaN ELSE x)
    ELSE IF x.n = 0 THEN Zero(FALSE)
    ELSE IF x.neg THEN NaN
    ELSE IF RatRoots(x, years) # {}
         THEN LET pq == CHOOSE r \in RatRoots(x, years) : TRUE
              IN Fin(pq[1], pq[2])
         ELSE Root(x, years)

\* (x - 1) * 100 on a value of PowInv; a symbolic root stays symbolic.
PercentOver(x) ==
    IF x.k = "root" THEN x
    ELSE Mul(Sub(x, Int2Num(1)), Int2Num(100))

calculateCAGR(startNAV, endNAV, years) ==
    IF Falsy(startNAV) \/ Falsy(endNAV) \/ years <= 0 THEN Null
    ELSE PercentOver(PowInv(Div(endNAV, startNAV), years))

---------------------------------------------------------------------------
(* The calculator page: calculateReverseSIP, calculateTax, calculate       *)

Num100 == Int2Num(100)
Num12  == Int2Num(12)
One    == Int2Num(1)

\* fvFactor of calculateReverseSIP: ((1 + r)^n - 1) / r * (1 + r)
FvFactor(monthlyRate, totalMonths) ==
    Mul(Div(Sub(PowInt(Add(One, monthlyRate), totalMonths), One), monthlyRate),
        Add(One, monthlyRate))

calculateReverseSIP(targetCorpus, duration, annualReturn, frequency) ==
    LET monthlyRate == Div(Div(annualReturn, Num100), Num12)
        totalMonths == duration * 12
        fvFactor == FvFactor(monthlyRate, totalMonths)
        monthlySIP == Div(targetCorpus, fvFactor)
    IN Round(monthlySIP)

exemption == 125000

\* Mutant of calculateTax: equity gains are taxed in full, the exemption is
\* not subtracted.
calculateTaxNoExemption(gains, fundType) ==
    IF fundType = "equity"
    THEN IF Lt(Int2Num(exemption), gains)
         THEN Mul(gains, Fin(125, 1000))
         ELSE Int2Num(0)
    ELSE IF fundType = "debt" THEN Mul(gains, Fin(30, 100))
    ELSE Mul(gains, Fin(20, 100))

\* The taxAmount of calculateTax for the fund type selected on the page.
calculateTax(gains, fundType) ==
    IF fundType = "equity"
    THEN IF Lt(Int2Num(exemption), gains)
         THEN Mul(Sub(gains, Int2Num(exemption)), Fin(125, 1000))
         ELSE Int2Num(0)
    ELSE IF fundType = "debt" THEN Mul(gains, Fin(30, 100))
    ELSE Mul(gains, Fin(20, 100))

\* The inner loop of calculate: periodsLeft compounding periods of one year.
RECURSIVE AccruePeriods(_, _, _, _)
AccruePeriods(corpus, factor, currentSIP, periodsLeft) ==
    IF periodsLeft = 0 THEN corpus
    ELSE AccruePeriods(Add(Mul(corpus, factor), currentSIP), factor, currentSIP,
                       periodsLeft - 1)

\* Mutant of ProjectYears: the step-up is applied from year 1 on.
RECURSIVE ProjectYearsStepFromYear1(_, _, _, _, _, _, _)
ProjectYearsStepFromYear1(year, duration, sipAmount, stepUpRate, monthlyRate, periodsPerYear, acc) ==
    IF year > duration THEN acc
    ELSE LET currentSIP == Mul(sipAmount,
                               PowInt(Add(One, Div(stepUpRate, Num100)), year))
             yearInvestment == Mul(currentSIP, Int2Num(periodsPerYear))
             totalInvested == Add(acc.totalInvested, yearInvestment)
             factor == Add(One, Mul(monthlyRate, Div(Num12, Int2Num(periodsPerYear))))
             corpus == AccruePeriods(acc.corpus, factor, currentSIP, periodsPerYear)
             row == [year |-> year, invested |-> totalInvested, corpus |-> corpus,
                     returns |-> Sub(corpus, totalInvested)]
         IN ProjectYearsStepFromYear1(year + 1, duration, sipAmount, stepUpRate,
                         monthlyRate, periodsPerYear,
                         [totalInvested |-> totalInvested, corpus |-> corpus,
                          yearlyData |-> Append(acc.yearlyData, row)])

\* The outer loop of calculate, from `year` to `duration`; acc carries
\* totalInvested, corpus and yearlyData.
RECURSIVE ProjectYears(_, _, _, _, _, _, _)
ProjectYears(year, duration, sipAmount, stepUpRate, monthlyRate, periodsPerYear, acc) ==
    IF year > duration THEN acc
    ELSE LET currentSIP == Mul(sipAmount,
                               PowInt(Add(One, Div(stepUpRate, Num100)), year - 1))
             yearInvestment == Mul(currentSIP, Int2Num(periodsPerYear))
             totalInvested == Add(acc.totalInvested, yearInvestment)
             factor == Add(One, Mul(monthlyRate, Div(Num12, Int2Num(periodsPerYear))))
             corpus == AccruePeriods(acc.corpus, factor, currentSIP, periodsPerYear)
             row == [year |-> year, invested |-> totalInvested, corpus |-> corpus,
                     returns |-> Sub(corpus, totalInvested)]
         IN ProjectYears(year + 1, duration, sipAmount, stepUpRate, monthlyRate,
                         periodsPerYear,
                         [totalInvested |-> totalInvested, corpus |-> corpus,
                          yearlyData |-> Append(acc.yearlyData, row)])

\* Mutant of Projection: the year loop starts at 0 instead of 1.
ProjectionFromYear0(sipAmount, duration, annualReturn, frequency, stepUpRate, lumpSum) ==
    LET monthlyRate == Div(Div(annualReturn, Num100), Num12)
    IN ProjectYears(0, duration, sipAmount, stepUpRate, monthlyRate, frequency,
                    [totalInvested |-> Int2Num(0), corpus |-> lumpSum,
                     yearlyData |-> <<>>])

\* Mutant of Projection: the corpus starts at 0, the lump sum is left out.
ProjectionWithoutLumpSum(sipAmount, duration, annualReturn, frequency, stepUpRate, lumpSum) ==
    LET monthlyRate == Div(Div(annualReturn, Num100), Num12)
    IN ProjectYears(1, duration, sipAmount, stepUpRate, monthlyRate, frequency,
                    [totalInvested |-> Int2Num(0), corpus |-> Int2Num(0),
                     yearlyData |-> <<>>])

\* The year-by-year projection of calculate for the plan it was given.
Projection(sipAmount, duration, annualReturn, frequency, stepUpRate, lumpSum) ==
    LET monthlyRate == Div(Div(annualReturn, Num100), Num12)
    IN ProjectYears(1, duration, sipAmount, stepUpRate, monthlyRate, frequency,
                    [totalInvested |-> Int2Num(0), corpus |-> lumpSum,
                     yearlyData |-> <<>>])

\* The sipAmount calculate works with: the field's value in forward mode, the
\* reverse-solved amount in reverse mode.
SipAmountOf(f, mode) ==
    IF mode = "reverse"
    THEN calculateReverseSIP(f.targetCorpus, f.duration, f.returnRate, f.frequency)
    ELSE f.sipAmount

\* The form after calculate: in reverse mode the solved amount is written
\* back to the sipAmount field.
FormAfterCalculate(f, mode) == [f EXCEPT !.sipAmount = SipAmountOf(f, mode)]

\* The result fields calculate writes.
calculate(f, mode) ==
    LET sipAmount == SipAmountOf(f, mode)
        stepUpRate == IF f.stepUpEnabled THEN f.stepUp ELSE Int2Num(0)
        lumpSum == IF f.lumpSumEnabled THEN f.lumpSum ELSE Int2Num(0)
        p == Projection(sipAmount, f.duration, f.returnRate, f.frequency,
                        stepUpRate, lumpSum)
        totalGains == Sub(p.corpus, p.totalInvested)
        taxAmount == calculateTax(totalGains, f.fundType)
    IN [yearlyData |-> p.yearlyData,
        totalInvested |-> p.totalInvested,
        corpus |-> p.corpus,
        totalGains |-> totalGains,
        taxAmount |-> taxAmount,
        postTaxCorpus |-> Sub(p.corpus, taxAmount)]

\* Mutant of scenarios: the moderate scenario runs at 10 instead of 12.
scenariosModerateAt10 ==
    << [rate |-> 8, id |-> "conservativeCorpus"],
       [rate |-> 10, id |-> "moderateCorpus"],
       [rate |-> 15, id |-> "aggressiveCorpus"] >>

\* the scenarios array of calculateScenarios
scenarios ==
    << [rate |-> 8, id |-> "conservativeCorpus"],
       [rate |-> 12, id |-> "moderateCorpus"],
       [rate |-> 15, id |-> "aggressiveCorpus"] >>

\* The inner loop of calculateScenarios: the periods of one year.
RECURSIVE ScenarioPeriods(_, _, _, _, _)
ScenarioPeriods(corpus, monthlyRate, frequency, currentSIP, period) ==
    IF period >= frequency THEN corpus
    ELSE ScenarioPeriods(
             Add(Mul(corpus, Add(One, Mul(monthlyRate,
                                          Div(Num12, Int2Num(frequency))))),
                 currentSIP),
             monthlyRate, frequency, currentSIP, period + 1)

\* The year loop of calculateScenarios for one scenario, from `year` on.
RECURSIVE ScenarioYears(_, _, _, _, _, _, _)
ScenarioYears(year, duration, sipAmount, frequency, stepUpRate, monthlyRate, corpus) ==
    IF year > duration THEN corpus
    ELSE LET currentSIP == Mul(sipAmount,
                               PowInt(Add(One, Div(stepUpRate, Num100)), year - 1))
         IN ScenarioYears(year + 1, duration, sipAmount, frequency, stepUpRate,
                          monthlyRate,
                          ScenarioPeriods(corpus, monthlyRate, frequency, currentSIP, 0))

\* calculateScenarios: the text of each scenario's element, in the order of
\* the scenarios array.
calculateScenarios(sipAmount, duration, frequency, stepUpRate, lumpSum) ==
    [i \in 1..Len(scenarios) |->
        [id |-> scenarios[i].id,
         corpus |-> ScenarioYears(1, duration, sipAmount, frequency, stepUpRate,
                        Div(Div(Int2Num(scenarios[i].rate), Num100), Num12),
                        lumpSum)]]

---------------------------------------------------------------------------
(* Bounds of the calculator model                                          *)

MaxSip == 2           \* the sipAmount field holds 1 .. MaxSip
MaxYears == 2         \* the duration field holds -1 .. MaxYears
MaxLump == 1          \* the lumpSum field holds 1 .. MaxLump
MaxTarget == 100000   \* the largest targetCorpus
MaxMagnitude == 16777216   \* the plans drawn keep (|sip| + lump) x growth below this

SipAmounts == { Int2Num(i) : i \in 1..MaxSip }
Durations == -1..MaxYears
\* annual rates whose monthly rate annualReturn/100/12 is -1, 0 and 1
ReturnRates == { Int2Num(-1200), Int2Num(0), Int2Num(1200) }
Frequencies == {12, 4, 6}
StepUps == { Int2Num(50) }
LumpSums == { Int2Num(i) : i \in 1..MaxLump }
TargetCorpora == { Int2Num(MaxTarget \div 100), Int2Num(MaxTarget) }
FundTypes == {"equity", "debt", "hybrid"}
Modes == {"forward", "reverse"}

FieldValues ==
    [sipAmount |-> SipAmounts, duration |-> Durations, returnRate |-> ReturnRates,
     frequency |-> Frequencies, stepUp |-> StepUps, lumpSum |-> LumpSums,
     targetCorpus |-> TargetCorpora, fundType |-> FundTypes]

Forms ==
    [sipAmount : SipAmounts, duration : Durations, returnRate : ReturnRates,
     frequency : Frequencies, stepUpEnabled : BOOLEAN, stepUp : StepUps,
     lumpSumEnabled : BOOLEAN, lumpSum : LumpSums,
     targetCorpus : TargetCorpora, fundType : FundTypes]

\* min(cap + 1, b^e) for b >= 0, computed without leaving 0 .. cap + 1
RECURSIVE SatPow(_, _, _)
SatPow(b, e, cap) ==
    IF e = 0 THEN 1
    ELSE LET p == SatPow(b, e - 1, cap)
         IN IF b = 0 THEN 0
            ELSE IF p > cap \div b THEN cap + 1 ELSE p * b

\* |x| rounded up to an integer, for a finite x
CeilAbs(x) == (Abs(x.n) + x.d - 1) \div x.d

\* The plans the model draws: those whose projection stays within 32-bit
\* integer numerators and denominators.
Fits(f, mode) ==
    LET monthlyRate == Div(Div(f.returnRate, Num100), Num12)
        years == IF f.duration > 0 THEN f.duration ELSE 0
        factor == Add(One, Mul(monthlyRate, Div(Num12, Int2Num(f.frequency))))
        growth == SatPow(CeilAbs(factor), f.frequency * years, MaxMagnitude)
        lump == IF f.lumpSumEnabled THEN CeilAbs(f.lumpSum) ELSE 0
    IN /\ growth <= MaxMagnitude
       /\ mode = "reverse" =>
            SatPow(CeilAbs(Add(One, monthlyRate)), 12 * Abs(f.duration), MaxMagnitude)
                <= MaxMagnitude
       /\ LET sip == SipAmountOf(f, mode)
          IN (IsFinite(sip) /\ growth > 0) =>
                 CeilAbs(sip) + lump <= MaxMagnitude \div growth

---------------------------------------------------------------------------
(* The calculator page as a state machine                                  *)

\* no helper call is in progress on the calculator page
NoCall == [fn |-> "none"]
\* the result slot of a call: empty, or holding the value returned
NotReturned == [done |-> FALSE]
ReturnedValue(v) == [done |-> TRUE, v |-> v]

\* The page after DOMContentLoaded: the fields hold their initial values,
\* currentMode is 'forward' and calculate() has run once.
InitCalc ==
    /\ form \in Forms
    /\ Fits(form, "forward")
    /\ currentMode = "forward"
    /\ out = calculate(form, "forward")
    /\ call = NoCall
    /\ ret = NotReturned
    /\ PortfolioPageLoaded

\* calculate() on the fields f in mode m
Recalculate(f, m) ==
    /\ Fits(f, m)
    /\ form' = FormAfterCalculate(f, m)
    /\ currentMode' = m
    /\ out' = calculate(f, m)
    /\ UNCHANGED <<call, ret, portfolioVars, onboardingState>>

\* updateValue / updateSlider / updateDisplay: the user changes one field
updateValue ==
    \E id \in DOMAIN FieldValues : \E v \in FieldValues[id] :
        /\ form[id] # v
        /\ Recalculate([form EXCEPT ![id] = v], currentMode)

setMode == \E mode \in Modes : Recalculate(form, mode)

setReturn ==
    \E rate \in ReturnRates : Recalculate([form EXCEPT !.returnRate = rate], currentMode)

toggleStepUp ==
    Recalculate([form EXCEPT !.stepUpEnabled = ~form.stepUpEnabled], currentMode)

toggleLumpSum ==
    Recalculate([form EXCEPT !.lumpSumEnabled = ~form.lumpSumEnabled], currentMode)

NextCalc == updateValue \/ setMode \/ setReturn \/ toggleStepUp \/ toggleLumpSum

SpecCalc == InitCalc /\ [][NextCalc]_vars

---------------------------------------------------------------------------
(* detectCategory (portfolio page)                                         *)

Digits == {"0", "1", "2", "3", "4", "5", "6", "7", "8", "9"}

\* String.prototype.toLowerCase on one character (the letters the names use)
LowerChar(c) ==
    CASE c = "A" -> "a" [] c = "B" -> "b" [] c = "C" -> "c" [] c = "D" -> "d"
      [] c = "E" -> "e" [] c = "F" -> "f" [] c = "G" -> "g" [] c = "H" -> "h"
      [] c = "I" -> "i" [] c = "J" -> "j" [] c = "K" -> "k" [] c = "L" -> "l"
      [] c = "M" -> "m" [] c = "N" -> "n" [] c = "O" -> "o" [] c = "P" -> "p"
      [] c = "Q" -> "q" [] c = "R" -> "r" [] c = "S" -> "s" [] c = "T" -> "t"
      [] c = "U" -> "u" [] c = "V" -> "v" [] c = "W" -> "w" [] c = "X" -> "x"
      [] c = "Y" -> "y" [] c = "Z" -> "z" [] OTHER -> c

RECURSIVE Lower(_)
Lower(str) ==
    IF Len(str) = 0 THEN ""
    ELSE LowerChar(SubSeq(str, 1, 1)) \o Lower(SubSeq(str, 2, Len(str)))

\* whether the literal occurs in str
Contains(str, literal) ==
    \E i \in 1..(Len(str) - Len(literal) + 1) :
        SubSeq(str, i, i + Len(literal) - 1) = literal

\* /top \d+/ : "top " followed by at least one digit
ContainsTopDigits(str) ==
    \E i \in 1..(Len(str) - 4) :
        /\ SubSeq(str, i, i + 3) = "top "
        /\ SubSeq(str, i + 4, i + 4) \in Digits

\* CATEGORY_PATTERNS in the order of the object's keys; every pattern is an
\* alternation of literals under the flag i, Large Cap's also has top \d+.
CATEGORY_PATTERNS == <<
    [category |-> "ELSS", literals |-> {"elss", "tax saver", "tax saving"},
     topDigits |-> FALSE],
    [category |-> "Large Cap", literals |-> {"large cap", "bluechip", "blue chip"},
     topDigits |-> TRUE],
    [category |-> "Mid Cap", literals |-> {"mid cap", "midcap"}, topDigits |-> FALSE],
    [category |-> "Small Cap", literals |-> {"small cap", "smallcap"},
     topDigits |-> FALSE],
    [category |-> "Flexi Cap",
     literals |-> {"flexi cap", "flexicap", "multi cap", "multicap"},
     topDigits |-> FALSE],
    [category |-> "Debt",
     literals |-> {"debt", "bond", "income", "gilt", "liquid", "money market",
                   "ultra short", "short duration", "medium duration", "dynamic bond"},
     topDigits |-> FALSE],
    [category |-> "Hybrid",
     literals |-> {"hybrid", "balanced", "equity & debt", "aggressive",
                   "conservative hybrid", "dynamic asset"},
     topDigits |-> FALSE],
    [category |-> "Index", literals |-> {"index", "nifty", "sensex", "etf"},
     topDigits |-> FALSE],
    [category |-> "Thematic",
     literals |-> {"thematic", "sectoral", "pharma", "banking", "technology",
                   "infrastructure", "psu", "consumption"},
     topDigits |-> FALSE],
    [category |-> "International",
     literals |-> {"international", "overseas", "global", "us equity", "nasdaq"},
     topDigits |-> FALSE] >>

\* pattern.test(fundName)
PatternTest(pattern, fundName) ==
    LET str == Lower(fundName)
    IN \/ \E literal \in pattern.literals : Contains(str, literal)
       \/ pattern.topDigits /\ ContainsTopDigits(str)

\* the loop of detectCategory from entry i of CATEGORY_PATTERNS on
RECURSIVE DetectFrom(_, _)
DetectFrom(i, fundName) ==
    IF i > Len(CATEGORY_PATTERNS) THEN "Other"
    ELSE IF PatternTest(CATEGORY_PATTERNS[i], fundName)
         THEN CATEGORY_PATTERNS[i].category
         ELSE DetectFrom(i + 1, fundName)

\* Mutant of detectCategory: the final `return 'Other'` is missing, so a name
\* no pattern matches yields undefined.
detectCategoryNoDefault(fundName) ==
    LET tag == DetectFrom(1, fundName)
    IN IF tag = "Other" THEN "undefined" ELSE tag

\* Mutant of detectCategory: the tag of the last matching pattern is returned.
RECURSIVE DetectLastFrom(_, _)
DetectLastFrom(i, fundName) ==
    IF i < 1 THEN "Other"
    ELSE IF PatternTest(CATEGORY_PATTERNS[i], fundName)
         THEN CATEGORY_PATTERNS[i].category
         ELSE DetectLastFrom(i - 1, fundName)

detectCategoryLastMatch(fundName) == DetectLastFrom(Len(CATEGORY_PATTERNS), fundName)

detectCategory(fundName) == DetectFrom(1, fundName)

---------------------------------------------------------------------------
(* The allocation table of createDiversifiedPortfolio                      *)

\* The allocations object: its entries in insertion order.
RECURSIVE AllocIndex(_, _, _)
AllocIndex(allocations, category, i) ==
    IF i > Len(allocations) THEN 0
    ELSE IF allocations[i].category = category THEN i
    ELSE AllocIndex(allocations, category, i + 1)

\* allocations[category] || 0
AllocGet(allocations, category) ==
    LET i == AllocIndex(allocations, category, 1)
    IN IF i = 0 THEN 0 ELSE allocations[i].allocation

\* allocations[category] = value: an existing key keeps its place, a new key
\* is added last
AllocSet(allocations, category, value) ==
    LET i == AllocIndex(allocations, category, 1)
    IN IF i = 0
       THEN Append(allocations, [category |-> category, allocation |-> value])
       ELSE [allocations EXCEPT ![i].allocation = value]

\* Mutant of Max0: the subtraction is not floored at 0.
Max0Unclamped(i) == i

\* Math.max(0, i)
Max0(i) == IF i < 0 THEN 0 ELSE i

BaseAllocations(risk) ==
    IF risk = "low"
    THEN << [category |-> "Debt", allocation |-> 60],
            [category |-> "Hybrid", allocation |-> 25],
            [category |-> "Large Cap", allocation |-> 15] >>
    ELSE IF risk = "medium"
    THEN << [category |-> "Debt", allocation |-> 30],
            [category |-> "Hybrid", allocation |-> 20],
            [category |-> "Large Cap", allocation |-> 30],
            [category |-> "Mid Cap", allocation |-> 15],
            [category |-> "Index", allocation |-> 5] >>
    ELSE << [category |-> "Large Cap", allocation |-> 25],
            [category |-> "Mid Cap", allocation |-> 30],
            [category |-> "Small Cap", allocation |-> 15],
            [category |-> "Flexi Cap", allocation |-> 20],
            [category |-> "Debt", allocation |-> 10] >>

StyleAdjusted(allocations, style) ==
    IF style < 33
    THEN LET a == AllocSet(allocations, "Debt", AllocGet(allocations, "Debt") + 10)
         IN AllocSet(a, "Small Cap", Max0(AllocGet(a, "Small Cap") - 10))
    ELSE IF style > 66
    THEN LET a == AllocSet(allocations, "Small Cap",
                           AllocGet(allocations, "Small Cap") + 10)
         IN AllocSet(a, "Debt", Max0(AllocGet(a, "Debt") - 10))
    ELSE allocations

TaxAdjusted(allocations, includeTax) ==
    IF includeTax
    THEN LET a == AllocSet(allocations, "ELSS", 20)
             b == AllocSet(a, "Large Cap", Max0(AllocGet(a, "Large Cap") - 10))
         IN AllocSet(b, "Debt", Max0(AllocGet(b, "Debt") - 10))
    ELSE allocations

\* the allocations object createDiversifiedPortfolio builds before it looks
\* any fund up
TargetAllocations(risk, style, includeTax) ==
    TaxAdjusted(StyleAdjusted(BaseAllocations(risk), style), includeTax)

---------------------------------------------------------------------------
(* calculateReturns (portfolio page)                                       *)

DigitValue(c) ==
    CASE c = "0" -> 0 [] c = "1" -> 1 [] c = "2" -> 2 [] c = "3" -> 3
      [] c = "4" -> 4 [] c = "5" -> 5 [] c = "6" -> 6 [] c = "7" -> 7
      [] c = "8" -> 8 [] c = "9" -> 9

\* the number written by the digits of str from position i on, up to the
\* first character that is not a digit
RECURSIVE ParseDigits(_, _, _)
ParseDigits(str, i, acc) ==
    IF i > Len(str) \/ SubSeq(str, i, i) \notin Digits THEN acc
    ELSE ParseDigits(str, i + 1, acc * 10 + DigitValue(SubSeq(str, i, i)))

\* Number on a string of digits
Number(str) == ParseDigits(str, 1, 0)

\* str.split('-') from position i on; cur is the part being read
RECURSIVE SplitDash(_, _, _)
SplitDash(str, i, cur) ==
    IF i > Len(str) THEN << cur >>
    ELSE IF SubSeq(str, i, i) = "-" THEN << cur >> \o SplitDash(str, i + 1, "")
    ELSE SplitDash(str, i + 1, cur \o SubSeq(str, i, i))

\* parseFloat on a string of digits
parseFloat(str) == Int2Num(ParseDigits(str, 1, 0))

IsLeapYear(year) == (year % 4 = 0 /\ year % 100 # 0) \/ year % 400 = 0

\* days of the month, month counted from 0 as Date does
DaysInMonth(year, month) ==
    IF month = 1 THEN (IF IsLeapYear(year) THEN 29 ELSE 28)
    ELSE IF month \in {3, 5, 8, 10} THEN 30 ELSE 31

\* new Date(year, month, day) at local midnight: a day past the end of the
\* month rolls over into the next month
NewDate(year, month, day) ==
    IF day > DaysInMonth(year, month)
    THEN [year |-> (IF month = 11 THEN year + 1 ELSE year),
          month |-> (month + 1) % 12,
          day |-> day - DaysInMonth(year, month)]
    ELSE [year |-> year, month |-> month, day |-> day]

\* date.setFullYear(year)
SetFullYear(date, year) == NewDate(year, date.month, date.day)

\* a <= b on Date objects
DateLe(a, b) ==
    \/ a.year < b.year
    \/ a.year = b.year /\ a.month < b.month
    \/ a.year = b.year /\ a.month = b.month /\ a.day <= b.day

parseIndianDate(dateStr) ==
    LET parts == SplitDash(dateStr, 1, "")
    IN NewDate(Number(parts[3]), Number(parts[2]) - 1, Number(parts[1]))

\* the value null where an object is expected
NoObject == [k |-> "null"]

\* the loop of findNAVByDate from entry i on
RECURSIVE FindFrom(_, _, _)
FindFrom(navData, target, i) ==
    IF i > Len(navData) THEN NoObject
    ELSE IF DateLe(parseIndianDate(navData[i].date), target)
         THEN [k |-> "object", nav |-> parseFloat(navData[i].nav),
               date |-> navData[i].date]
         ELSE FindFrom(navData, target, i + 1)

\* Mutant of findNAVByDate: the series is searched from its oldest entry.
RECURSIVE FindFromOldest(_, _, _)
FindFromOldest(navData, target, i) ==
    IF i < 1 THEN NoObject
    ELSE IF DateLe(parseIndianDate(navData[i].date), target)
         THEN [k |-> "object", nav |-> parseFloat(navData[i].nav),
               date |-> navData[i].date]
         ELSE FindFromOldest(navData, target, i - 1)

findNAVByDateOldestFirst(navData, target) ==
    FindFromOldest(navData, target, Len(navData))

findNAVByDate(navData, target) ==
    IF Len(navData) = 0 THEN NoObject ELSE FindFrom(navData, target, 1)

\* historyData is null (the request failed) or the parsed response
calculateReturns(historyData) ==
    IF historyData.k = "null" \/ Len(historyData.data) = 0
    THEN [cagr1y |-> Null, cagr3y |-> Null, cagr5y |-> Null]
    ELSE LET navData == historyData.data
             latestNAV == parseFloat(navData[1].nav)
             latestDate == parseIndianDate(navData[1].date)
             oneYearAgo == SetFullYear(latestDate, latestDate.year - 1)
             threeYearsAgo == SetFullYear(latestDate, latestDate.year - 3)
             fiveYearsAgo == SetFullYear(latestDate, latestDate.year - 5)
             nav1y == findNAVByDate(navData, oneYearAgo)
             nav3y == findNAVByDate(navData, threeYearsAgo)
             nav5y == findNAVByDate(navData, fiveYearsAgo)
         IN [cagr1y |-> IF nav1y.k = "object"
                        THEN calculateCAGR(nav1y.nav, latestNAV, 1) ELSE Null,
             cagr3y |-> IF nav3y.k = "object"
                        THEN calculateCAGR(nav3y.nav, latestNAV, 3) ELSE Null,
             cagr5y |-> IF nav5y.k = "object"
                        THEN calculateCAGR(nav5y.nav, latestNAV, 5) ELSE Null]

---------------------------------------------------------------------------
(* generateAutoPortfolio: reading the form                                 *)

\* parseInt on the value of a range input (no sign, no leading blanks): the
\* leading digits, NaN when there is none
parseInt(str) ==
    IF Len(str) = 0 \/ SubSeq(str, 1, 1) \notin Digits THEN NaN
    ELSE Int2Num(ParseDigits(str, 1, 0))

\* const style = parseInt(document.getElementById('styleSlider').value) || 50
StyleRead(sliderValue) ==
    LET parsed == parseInt(sliderValue)
    IN IF Falsy(parsed) THEN 50 ELSE parsed.n

---------------------------------------------------------------------------
(* The annual return rate a fund is projected at                           *)

getCategoryReturn(category) ==
    CASE category = "Large Cap" -> Int2Num(12)
      [] category = "Mid Cap" -> Int2Num(15)
      [] category = "Small Cap" -> Int2Num(18)
      [] category = "Flexi Cap" -> Int2Num(13)
      [] category = "ELSS" -> Int2Num(13)
      [] category = "Debt" -> Int2Num(7)
      [] category = "Hybrid" -> Int2Num(10)
      [] category = "Index" -> Int2Num(11)
      [] category = "Thematic" -> Int2Num(14)
      [] category = "International" -> Int2Num(12)
      [] OTHER -> Int2Num(12)

\* a || b on numbers
OrElse(a, b) == IF Falsy(a) THEN b ELSE a

\* analyzeManualPortfolio:
\* fund.cagr5y || fund.cagr3y || getCategoryReturn(fund.category)
ManualReturnRate(fund) ==
    OrElse(OrElse(fund.cagr5y, fund.cagr3y), getCategoryReturn(fund.category))

\* generateAutoPortfolio: fund.cagr5y || fund.cagr3y || expectedReturn
AutoReturnRate(fund, expectedReturn) ==
    OrElse(OrElse(fund.cagr5y, fund.cagr3y), expectedReturn)

\* The year loop of analyzeManualPortfolio for one fund, from `year` on: acc
\* carries currentSIP and totalInvested, and the currentSIP of every year in
\* `contributions`.  (The corpus, compounded over the twelve months of each
\* year with that year's currentSIP, is not part of the record.)
RECURSIVE ManualYears(_, _, _, _)
ManualYears(fund, year, tenure, acc) ==
    IF year > tenure THEN acc
    ELSE LET currentSIP ==
                 IF fund.stepUpEnabled /\ year > 1
                 THEN Mul(acc.currentSIP, Add(One, Div(fund.stepUpRate, Num100)))
                 ELSE acc.currentSIP
             yearlyInvestment == Mul(currentSIP, Num12)
         IN ManualYears(fund, year + 1, tenure,
                        [currentSIP |-> currentSIP,
                         totalInvested |-> Add(acc.totalInvested, yearlyInvestment),
                         contributions |-> Append(acc.contributions, currentSIP)])

\* the forEach body of analyzeManualPortfolio for one fund
ManualFundLoop(fund, tenure) ==
    ManualYears(fund, 1, tenure,
                [currentSIP |-> fund.sipAmount, totalInvested |-> Int2Num(0),
                 contributions |-> << >>])

---------------------------------------------------------------------------
(* The helpers of the portfolio page applied to bounded inputs             *)

MaxNav == 3          \* NAV arguments range over -MaxNav .. MaxNav, null and NaN
MaxCagrYears == 3    \* the years argument ranges over -1 .. MaxCagrYears
MaxFragments == 2    \* a fund name is made of at most MaxFragments fragments
MaxStyle == 100      \* the style argument ranges over 0 .. MaxStyle
MaxSeries == 3       \* a NAV series has at most MaxSeries entries
MaxScenarioPeriods == 4   \* the scenario plans run over at most this many periods
MaxStepYears == 3     \* the stepped-up plans run over at most MaxStepYears years
MaxCompoundYears == 2 \* with a rate other than 0 they run over at most this many years

NavValues == { Null, NaN } \cup { Int2Num(i) : i \in (-MaxNav)..MaxNav }

Fragments ==
    { "ELSS", "Tax Saver", "Large Cap", "Bluechip", "Top ", "100", "Mid", "Cap",
      " ", "smallcap", "Flexi Cap", "Debt", "Balanced", "Nifty", "Pharma",
      "Global", "Fund", "-" }

RECURSIVE NamesOf(_)
NamesOf(k) ==
    IF k = 0 THEN {""}
    ELSE LET shorter == NamesOf(k - 1)
         IN shorter \cup { n \o f : n \in shorter, f \in Fragments }

FundNames == NamesOf(MaxFragments)

Risks == {"low", "medium", "high"}

\* the values of the style slider: the integers 0 .. MaxStyle as strings
SliderValues == { ToString(i) : i \in 0..MaxStyle }

\* the CAGR fields of a fund: missing, zero, a gain or a loss
CagrValues == { Null, Int2Num(0), Int2Num(8), Int2Num(-5) }
RatedFunds ==
    [cagr5y : CagrValues, cagr3y : CagrValues, category : {"Debt", "Small Cap", "Other"}]
\* parseFloat(autoExpectedReturn.value) || 12: the default or a typed rate
ExpectedReturns == { Int2Num(12), Int2Num(10) }

\* NAV series: at most MaxSeries entries of the provider's format, most
\* recent first, with positive NAVs
DateStrings ==
    { "29-02-2024", "01-03-2024", "01-03-2023", "28-02-2023", "01-03-2021",
      "28-02-2021", "01-03-2019", "28-02-2019", "15-06-2018" }
NavStrings == { "1", "8" }
NavEntries == [date : DateStrings, nav : NavStrings]

StrictlyBefore(a, b) == DateLe(a, b) /\ a # b

RECURSIVE SeriesOf(_)
SeriesOf(n) ==
    IF n = 0 THEN { << >> }
    ELSE LET shorter == SeriesOf(n - 1)
         IN shorter \cup
            { Append(x[1], x[2]) :
                x \in { y \in shorter \X NavEntries :
                          \/ Len(y[1]) = 0
                          \/ StrictlyBefore(parseIndianDate(y[2].date),
                                parseIndianDate(y[1][Len(y[1])].date)) } }

Histories ==
    { [k |-> "null", data |-> << >>] }
    \cup { [k |-> "json", data |-> series] : series \in SeriesOf(MaxSeries) }

\* the plans the scenarios are computed for: those of at most
\* MaxScenarioPeriods compounding periods
ScenarioFrequencies == {4, 2, 1}

ScenarioCalls ==
    { c \in [fn : {"calculateScenarios"}, sipAmount : SipAmounts,
             duration : Durations, frequency : ScenarioFrequencies,
             stepUpRate : { Int2Num(0), Int2Num(50) },
             lumpSum : { Int2Num(0) } \cup LumpSums] :
        c.frequency * c.duration <= MaxScenarioPeriods }

\* the plans the projection loop of calculate is called with: step-up rates
\* 0, 10 and 50, up to MaxStepYears years at the rate 0, and up to
\* MaxCompoundYears years at a period factor 1 + monthlyRate * (12 / frequency)
\* of 2
StepUpRates == { Int2Num(0), Int2Num(10), Int2Num(50) }

ProjectionCalls ==
    { c \in [fn : {"calculate"}, sipAmount : SipAmounts,
             duration : -1..MaxStepYears, annualReturn : { Int2Num(0), Int2Num(400) },
             frequency : {12, 4}, stepUpRate : StepUpRates,
             lumpSum : { Int2Num(0) } \cup LumpSums] :
        IsZero(c.annualReturn) \/ (c.frequency = 4 /\ c.duration <= MaxCompoundYears) }

\* the funds and tenures the fund loop of analyzeManualPortfolio is called with
ManualLoopCalls ==
    [fn : {"analyzeManualPortfolio"},
     fund : [sipAmount : SipAmounts \cup { Int2Num(1000) }, stepUpEnabled : BOOLEAN,
             stepUpRate : { Int2Num(10), Int2Num(50) }],
     tenure : 1..MaxStepYears]

Calls ==
    [fn : {"calculateCAGR"}, startNAV : NavValues, endNAV : NavValues,
     years : -1..MaxCagrYears]
    \cup [fn : {"detectCategory"}, fundName : FundNames]
    \cup [fn : {"createDiversifiedPortfolio"}, risk : Risks, style : 0..MaxStyle,
          includeTax : BOOLEAN]
    \cup [fn : {"generateAutoPortfolio"}, risk : Risks, styleSlider : SliderValues,
          includeTax : BOOLEAN]
    \cup [fn : {"returnRate"}, mode : {"manual", "auto"}, fund : RatedFunds,
          expectedReturn : ExpectedReturns]
    \cup [fn : {"calculateReturns"}, historyData : Histories]
    \cup ScenarioCalls
    \cup ProjectionCalls
    \cup ManualLoopCalls

NoForm == [page |-> "portfolio"]

InitFn ==
    /\ call \in Calls
    /\ ret = NotReturned
    /\ form = NoForm
    /\ currentMode = "forward"
    /\ out = NoForm
    /\ PortfolioPageLoaded

CallCalculateCAGR ==
    /\ call.fn = "calculateCAGR"
    /\ ret = NotReturned
    /\ ret' = ReturnedValue(calculateCAGR(call.startNAV, call.endNAV, call.years))
    /\ UNCHANGED <<call, form, currentMode, out, portfolioVars, onboardingState>>

CallDetectCategory ==
    /\ call.fn = "detectCategory"
    /\ ret = NotReturned
    /\ ret' = ReturnedValue(detectCategory(call.fundName))
    /\ UNCHANGED <<call, form, currentMode, out, portfolioVars, onboardingState>>

\* createDiversifiedPortfolio up to its target allocations
CallTargetAllocations ==
    /\ call.fn = "createDiversifiedPortfolio"
    /\ ret = NotReturned
    /\ ret' = ReturnedValue(TargetAllocations(call.risk, call.style, call.includeTax))
    /\ UNCHANGED <<call, form, currentMode, out, portfolioVars, onboardingState>>

\* generateAutoPortfolio up to the target allocations its call of
\* createDiversifiedPortfolio builds from the form
CallGenerateAllocations ==
    /\ call.fn = "generateAutoPortfolio"
    /\ ret = NotReturned
    /\ ret' = ReturnedValue(TargetAllocations(call.risk, StyleRead(call.styleSlider),
                                              call.includeTax))
    /\ UNCHANGED <<call, form, currentMode, out, portfolioVars, onboardingState>>

\* the rate one fund is projected at by the manual analysis or by the auto
\* generation
CallReturnRate ==
    /\ call.fn = "returnRate"
    /\ ret = NotReturned
    /\ ret' = ReturnedValue(IF call.mode = "manual" THEN ManualReturnRate(call.fund)
                            ELSE AutoReturnRate(call.fund, call.expectedReturn))
    /\ UNCHANGED <<call, form, currentMode, out, portfolioVars, onboardingState>>

CallCalculateScenarios ==
    /\ call.fn = "calculateScenarios"
    /\ ret = NotReturned
    /\ ret' = ReturnedValue(calculateScenarios(call.sipAmount, call.duration,
                                call.frequency, call.stepUpRate, call.lumpSum))
    /\ UNCHANGED <<call, form, currentMode, out, portfolioVars, onboardingState>>

\* calculate up to its year-by-year projection
CallProjection ==
    /\ call.fn = "calculate"
    /\ ret = NotReturned
    /\ ret' = ReturnedValue(Projection(call.sipAmount, call.duration, call.annualReturn,
                                       call.frequency, call.stepUpRate, call.lumpSum))
    /\ UNCHANGED <<call, form, currentMode, out, portfolioVars, onboardingState>>

\* analyzeManualPortfolio for one fund, up to its contributions
CallManualFundLoop ==
    /\ call.fn = "analyzeManualPortfolio"
    /\ ret = NotReturned
    /\ ret' = ReturnedValue(ManualFundLoop(call.fund, call.tenure))
    /\ UNCHANGED <<call, form, currentMode, out, portfolioVars, onboardingState>>

CallCalculateReturns ==
    /\ call.fn = "calculateReturns"
    /\ ret = NotReturned
    /\ ret' = ReturnedValue(calculateReturns(call.historyData))
    /\ UNCHANGED <<call, form, currentMode, out, portfolioVars, onboardingState>>

NextFn ==
    \/ CallCalculateCAGR
    \/ CallDetectCategory
    \/ CallTargetAllocations
    \/ CallGenerateAllocations
    \/ CallReturnRate
    \/ CallCalculateReturns
    \/ CallCalculateScenarios
    \/ CallProjection
    \/ CallManualFundLoop

SpecFn == InitFn /\ [][NextFn]_vars

Returned(fn) == call.fn = fn /\ ret.done

---------------------------------------------------------------------------
(* Auto mode: generateAutoPortfolio and createDiversifiedPortfolio         *)

MaxFailures == 4     \* at most MaxFailures requests to the provider fail in a run

\* topFundsByCategoryWithBackups[category]; undefined is the empty list
topFundsByCategoryWithBackups(category) ==
    CASE category = "Debt" ->
            << [code |-> "118825", name |-> "HDFC Corporate Bond Fund",
                search |-> "hdfc corporate bond direct growth"],
               [code |-> "118989", name |-> "ICICI Prudential Corporate Bond Fund",
                search |-> "icici corporate bond direct growth"],
               [code |-> "119533", name |-> "Axis Banking & PSU Debt Fund",
                search |-> "axis banking psu debt direct growth"] >>
      [] category = "Hybrid" ->
            << [code |-> "119551", name |-> "HDFC Balanced Advantage Fund",
                search |-> "hdfc balanced advantage direct growth"],
               [code |-> "120503", name |-> "ICICI Prudential Equity & Debt Fund",
                search |-> "icici equity debt direct growth"],
               [code |-> "120344", name |-> "HDFC Hybrid Equity Fund",
                search |-> "hdfc hybrid equity direct growth"] >>
      [] category = "Large Cap" ->
            << [code |-> "119597", name |-> "HDFC Top 100 Fund",
                search |-> "hdfc top 100 direct growth"],
               [code |-> "120505", name |-> "ICICI Prudential Bluechip Fund",
                search |-> "icici bluechip direct growth"],
               [code |-> "120591", name |-> "Axis Bluechip Fund",
                search |-> "axis bluechip direct growth"] >>
      [] category = "Mid Cap" ->
            << [code |-> "119598", name |-> "HDFC Mid-Cap Opportunities Fund",
                search |-> "hdfc mid cap direct growth"],
               [code |-> "120838", name |-> "Kotak Emerging Equity Fund",
                search |-> "kotak emerging equity direct growth"],
               [code |-> "120593", name |-> "Axis Midcap Fund",
                search |-> "axis midcap direct growth"] >>
      [] category = "Small Cap" ->
            << [code |-> "119555", name |-> "HDFC Small Cap Fund",
                search |-> "hdfc small cap direct growth"],
               [code |-> "120594", name |-> "Axis Small Cap Fund",
                search |-> "axis small cap direct growth"],
               [code |-> "120839", name |-> "Kotak Small Cap Fund",
                search |-> "kotak small cap direct growth"] >>
      [] category = "Flexi Cap" ->
            << [code |-> "122639", name |-> "Parag Parikh Flexi Cap Fund",
                search |-> "parag parikh flexi cap direct growth"],
               [code |-> "120716", name |-> "HDFC Flexi Cap Fund",
                search |-> "hdfc flexi cap direct growth"],
               [code |-> "145552", name |-> "Quant Flexi Cap Fund",
                search |-> "quant flexi cap direct growth"] >>
      [] category = "ELSS" ->
            << [code |-> "119533", name |-> "HDFC Tax Saver",
                search |-> "hdfc tax saver direct growth"],
               [code |-> "120594", name |-> "Axis Long Term Equity Fund",
                search |-> "axis long term equity direct growth"],
               [code |-> "145550", name |-> "Quant Tax Plan",
                search |-> "quant tax plan direct growth"] >>
      [] category = "Index" ->
            << [code |-> "120716", name |-> "HDFC Index Fund Nifty 50",
                search |-> "hdfc index nifty 50 direct growth"],
               [code |-> "120844", name |-> "ICICI Prudential Nifty 50 Index Fund",
                search |-> "icici nifty 50 index direct growth"],
               [code |-> "120830", name |-> "UTI Nifty 50 Index Fund",
                search |-> "uti nifty 50 index direct growth"] >>
      [] OTHER -> << >>

getRoleDescription(category) ==
    CASE category = "Debt" -> "Stability & Capital Protection"
      [] category = "Hybrid" -> "Balanced Growth & Stability"
      [] category = "Large Cap" -> "Stable Growth"
      [] category = "Mid Cap" -> "High Growth Potential"
      [] category = "Small Cap" -> "Aggressive Growth"
      [] category = "Flexi Cap" -> "Diversified Exposure"
      [] category = "ELSS" -> "Tax Saving & Growth"
      [] category = "Index" -> "Market Returns"
      [] category = "Thematic" -> "Sector-Focused Growth"
      [] category = "International" -> "Global Diversification"
      [] OTHER -> "Diversification"

\* What a request to the provider does: the response is ok, the response is
\* not ok, or fetch throws.
Outcomes == {"ok", "notOk", "throws"}

\* The CAGR fields calculateReturns derives from the history of a scheme: of
\* five years or more, of one to three years, of less than a year, and one
\* whose NAV is what it was one, three and five years before.
KnownReturns == [cagr1y |-> Int2Num(9), cagr3y |-> Int2Num(8), cagr5y |-> Int2Num(7)]
OneYearReturns == [cagr1y |-> Int2Num(9), cagr3y |-> Null, cagr5y |-> Null]
NoReturns == [cagr1y |-> Null, cagr3y |-> Null, cagr5y |-> Null]
FlatReturns == [cagr1y |-> Int2Num(0), cagr3y |-> Int2Num(0), cagr5y |-> Int2Num(0)]

\* What the provider holds for a scheme code: the curated codes and the
\* codes up to 10 are old funds, 11 is a fund of one year, 12 a new fund,
\* 13 a fund with a flat NAV.
ProviderReturns(schemeCode) ==
    CASE schemeCode = "11" -> OneYearReturns
      [] schemeCode = "12" -> NoReturns
      [] schemeCode = "13" -> FlatReturns
      [] OTHER -> KnownReturns

\* the categories of the table, in its order
TableCategories ==
    << "Debt", "Hybrid", "Large Cap", "Mid Cap", "Small Cap", "Flexi Cap", "ELSS",
       "Index" >>

\* every fundOption of the table, in its order
RECURSIVE OptionsFrom(_)
OptionsFrom(k) ==
    IF k > Len(TableCategories) THEN << >>
    ELSE topFundsByCategoryWithBackups(TableCategories[k]) \o OptionsFrom(k + 1)

FundOptions == OptionsFrom(1)

\* the names of schemes the table does not list
OtherNames ==
    << "Debt Fund Direct Growth", "Small Cap Fund - Direct Plan",
       "Gold Fund Regular Growth" >>

\* the scheme names the provider holds
ProviderNames ==
    [i \in 1..Len(FundOptions) |-> FundOptions[i].name] \o OtherNames

\* The scheme name the provider holds for a scheme code: the name the table
\* gives the code where it first lists it, and for a code the table does not
\* list one of OtherNames.
NameOfListed ==
    [code \in { FundOptions[i].code : i \in 1..Len(FundOptions) } |->
        LET first == CHOOSE i \in 1..Len(FundOptions) :
                        /\ FundOptions[i].code = code
                        /\ \A j \in 1..(i - 1) : FundOptions[j].code # code
        IN FundOptions[first].name]

ProviderName(schemeCode) ==
    IF schemeCode \in DOMAIN NameOfListed THEN NameOfListed[schemeCode]
    ELSE OtherNames[(Number(schemeCode) % 3) + 1]

\* detectCategory, and the plan tests name.toLowerCase().includes(...), on
\* each of the provider's names
NameFacts ==
    [i \in 1..Len(ProviderNames) |->
        [category |-> detectCategory(ProviderNames[i]),
         isDirect |-> Contains(Lower(ProviderNames[i]), "direct"),
         isGrowth |-> Contains(Lower(ProviderNames[i]), "growth")]]

FactsOf(name) == NameFacts[CHOOSE i \in 1..Len(ProviderNames) : ProviderNames[i] = name]

\* getFundDetails(schemeCode): getLatestNAV and calculateReturns run together;
\* each answers from apiCache when the code is cached (an entry outlives a
\* run: one hour, one day) and otherwise from its request, and catches the
\* failure of that request.  The result is null without the latest NAV; a
\* failed history only leaves the CAGR fields null.
getFundDetails(schemeCode, cache, latest, history) ==
    IF ~(schemeCode \in cache.latest \/ latest = "ok") THEN NoObject
    ELSE LET returns == IF schemeCode \in cache.navData \/ history = "ok"
                        THEN ProviderReturns(schemeCode) ELSE NoReturns
             name == ProviderName(schemeCode)
         IN [k |-> "object", schemeCode |-> schemeCode, name |-> name,
             category |-> FactsOf(name).category, cagr1y |-> returns.cagr1y,
             cagr3y |-> returns.cagr3y, cagr5y |-> returns.cagr5y]

\* the requests of getFundDetails that failed
FailedRequests(schemeCode, cache, latest, history) ==
    (IF schemeCode \notin cache.latest /\ latest # "ok" THEN 1 ELSE 0)
    + (IF schemeCode \notin cache.navData /\ history # "ok" THEN 1 ELSE 0)

\* apiCache after getFundDetails: the successful responses are stored
CacheAfter(schemeCode, cache, latest, history) ==
    [latest |-> IF latest = "ok" THEN cache.latest \cup {schemeCode} ELSE cache.latest,
     navData |-> IF history = "ok" THEN cache.navData \cup {schemeCode}
                 ELSE cache.navData]

\* The funds a search response may list for the first candidate's query of a
\* category, in the provider's order: a direct growth plan of the category,
\* a regular plan of it, and a direct growth plan of no category.
SearchHit(category) ==
    [schemeCode |-> "149999", schemeName |-> category \o " Fund Direct Growth"]
RegularHit(category) ==
    [schemeCode |-> "149998", schemeName |-> category \o " Fund Regular Growth"]
StrayHit == [schemeCode |-> "149997", schemeName |-> "Gold Fund Direct Growth"]

SearchResponses(category) ==
    { << >>,
      << SearchHit(category) >>,
      << RegularHit(category), SearchHit(category) >>,
      << StrayHit, SearchHit(category) >>,
      << RegularHit(category), StrayHit >> }

\* results.map(...) of searchFunds
Enriched(fund) ==
    [schemeCode |-> fund.schemeCode, schemeName |-> fund.schemeName,
     category |-> detectCategory(fund.schemeName),
     isDirect |-> Contains(Lower(fund.schemeName), "direct"),
     isGrowth |-> Contains(Lower(fund.schemeName), "growth")]

RECURSIVE MapEnriched(_)
MapEnriched(results) ==
    IF Len(results) = 0 THEN << >>
    ELSE << Enriched(Head(results)) >> \o MapEnriched(Tail(results))

IsDirectGrowth(f) == f.isDirect /\ f.isGrowth
IsDirectOnly(f) == f.isDirect /\ ~f.isGrowth
IsNotDirect(f) == ~f.isDirect

\* enrichedResults.sort(...): a stable sort under a comparator that puts the
\* direct growth plans first, then the other direct plans, then the rest
SortedResults(results) ==
    SelectSeq(results, IsDirectGrowth) \o SelectSeq(results, IsDirectOnly)
    \o SelectSeq(results, IsNotDirect)

\* searchFunds(query) with a query of three characters or more that is not
\* cached: the request's outcome and, when ok, the list it carries; every
\* failure is caught and gives the empty list
searchFunds(outcome, response) ==
    IF outcome # "ok" \/ Len(response) = 0 THEN << >>
    ELSE LET sorted == SortedResults(MapEnriched(response))
         IN SubSeq(sorted, 1, IF Len(sorted) < 15 THEN Len(sorted) ELSE 15)

\* searchResults.find(f => f.category === category && f.isDirect && f.isGrowth)
\* || searchResults[0]
RECURSIVE FindMatching(_, _, _)
FindMatching(searchResults, category, i) ==
    IF i > Len(searchResults) THEN searchResults[1]
    ELSE IF /\ searchResults[i].category = category
            /\ searchResults[i].isDirect /\ searchResults[i].isGrowth
         THEN searchResults[i]
         ELSE FindMatching(searchResults, category, i + 1)

\* The for loop over Object.entries(allocations) from entry j on: entries of
\* 0% and categories without candidates are passed (the latter with a
\* console warning only); the loop stops at the first category to look up,
\* or the function returns the portfolio.
RECURSIVE AdvanceFrom(_, _)
AdvanceFrom(g, j) ==
    IF j > Len(g.allocations) THEN [g EXCEPT !.pc = "returned", !.i = j, !.c = 0]
    ELSE IF g.allocations[j].allocation = 0 THEN AdvanceFrom(g, j + 1)
    ELSE IF Len(topFundsByCategoryWithBackups(g.allocations[j].category)) = 0
         THEN AdvanceFrom(g, j + 1)
    ELSE [g EXCEPT !.pc = "candidate", !.i = j, !.c = 1]

\* Mutant of Unresolved: a category without a fund ends the loop.
UnresolvedEndsLoop(g) == [g EXCEPT !.pc = "returned", !.i = Len(g.allocations) + 1]

\* if (fundDetails) ... else console.warn(...): the category is left out
Unresolved(g) == AdvanceFrom(g, g.i + 1)

\* if (fundDetails) portfolio.push({...fundDetails, allocation, sipAmount, role})
Resolved(g, fundDetails) ==
    LET entry == g.allocations[g.i]
        fund == [schemeCode |-> fundDetails.schemeCode,
                 name |-> fundDetails.name, category |-> fundDetails.category,
                 cagr1y |-> fundDetails.cagr1y, cagr3y |-> fundDetails.cagr3y,
                 cagr5y |-> fundDetails.cagr5y,
                 allocation |-> entry.allocation,
                 sipAmount |-> Round(Div(Mul(g.budget, Int2Num(entry.allocation)),
                                         Num100)),
                 role |-> getRoleDescription(entry.category)]
    IN AdvanceFrom([g EXCEPT !.portfolio = Append(@, fund)], g.i + 1)

\* Mutant of CandidateAt: the candidates are tried from the last to the first.
CandidateAtReversed(categoryFunds, c) == categoryFunds[Len(categoryFunds) + 1 - c]

\* the c-th fundOption of the loop over categoryFunds
CandidateAt(categoryFunds, c) == categoryFunds[c]

AutoSliderValues == {"0", "20", "80"}

\* the risk levels of the auto forms; the lookups depend on the risk level
\* only through the list of target categories
AutoRisks == {"low"}

AutoForms ==
    [page : {"auto"}, selectedRisk : AutoRisks, styleSlider : AutoSliderValues,
     taxSaving : BOOLEAN, autoBudget : {"10000"}, autoTenure : {"10"},
     autoExpectedReturn : {"12"}]

NoView == [view |-> "none"]

InitAuto ==
    /\ form \in AutoForms
    /\ currentMode = "forward"
    /\ out = NoView
    /\ call = NoCall
    /\ ret = NotReturned
    /\ PortfolioPageLoaded

\* generateAutoPortfolio up to the first await of createDiversifiedPortfolio:
\* the form is read, the loading view is shown, the allocations are built
generateAutoPortfolio ==
    /\ gen.pc = "idle"
    /\ gen' = AdvanceFrom(
                [pc |-> "start", i |-> 0, c |-> 0, code |-> "",
                 budget |-> OrElse(parseFloat(form.autoBudget), Int2Num(10000)),
                 tenure |-> OrElse(parseInt(form.autoTenure), Int2Num(10)),
                 expectedReturn |->
                     OrElse(parseFloat(form.autoExpectedReturn), Int2Num(12)),
                 allocations |-> TargetAllocations(form.selectedRisk,
                                     StyleRead(form.styleSlider), form.taxSaving),
                 portfolio |-> << >>], 1)
    /\ out' = [view |-> "loading"]
    /\ UNCHANGED <<form, currentMode, call, ret, lookups, apiCache, env,
                   currentPortfolio, adds, localStorage, onboardingState>>

\* await getFundDetails(fundOption.code) answers for the c-th candidate
CandidateLookup ==
    /\ gen.pc = "candidate"
    /\ \E latest \in Outcomes, history \in Outcomes :
        LET category == gen.allocations[gen.i].category
            categoryFunds == topFundsByCategoryWithBackups(category)
            fundOption == CandidateAt(categoryFunds, gen.c)
            fundDetails == getFundDetails(fundOption.code, apiCache, latest, history)
            failed == FailedRequests(fundOption.code, apiCache, latest, history)
        IN /\ env.failed + failed <= MaxFailures
           /\ env' = [env EXCEPT !.failed = @ + failed]
           /\ apiCache' = CacheAfter(fundOption.code, apiCache, latest, history)
           /\ lookups' = Append(lookups,
                  [category |-> category, step |-> "candidate",
                   code |-> fundOption.code, result |-> fundDetails.k])
           /\ gen' = IF fundDetails.k = "object" THEN Resolved(gen, fundDetails)
                     ELSE IF gen.c < Len(categoryFunds)
                          THEN [gen EXCEPT !.c = @ + 1]
                     ELSE IF categoryFunds[1].search # ""
                          THEN [gen EXCEPT !.pc = "search"]
                     ELSE Unresolved(gen)
    /\ UNCHANGED <<form, currentMode, out, call, ret, currentPortfolio, adds, localStorage, onboardingState>>

\* await searchFunds(categoryFunds[0].search) answers
FallbackSearch ==
    /\ gen.pc = "search"
    /\ \E outcome \in Outcomes :
       \E response \in SearchResponses(gen.allocations[gen.i].category) :
        LET category == gen.allocations[gen.i].category
            searchResults == searchFunds(outcome, response)
            failed == IF outcome = "ok" THEN 0 ELSE 1
        IN /\ outcome # "ok" => response = << >>
           /\ env.failed + failed <= MaxFailures
           /\ env' = [env EXCEPT !.failed = @ + failed]
           /\ lookups' = Append(lookups,
                  [category |-> category, step |-> "search",
                   code |-> topFundsByCategoryWithBackups(category)[1].search,
                   result |-> IF Len(searchResults) > 0 THEN "results" ELSE "empty"])
           /\ gen' = IF Len(searchResults) > 0
                     THEN [gen EXCEPT !.pc = "searchDetails",
                             !.code = FindMatching(searchResults, category, 1).schemeCode]
                     ELSE Unresolved(gen)
    /\ UNCHANGED <<form, currentMode, out, call, ret, apiCache, currentPortfolio,
                   adds, localStorage, onboardingState>>

\* await getFundDetails(matchingFund.schemeCode) answers
FallbackLookup ==
    /\ gen.pc = "searchDetails"
    /\ \E latest \in Outcomes, history \in Outcomes :
        LET category == gen.allocations[gen.i].category
            fundDetails == getFundDetails(gen.code, apiCache, latest, history)
            failed == FailedRequests(gen.code, apiCache, latest, history)
        IN /\ env.failed + failed <= MaxFailures
           /\ env' = [env EXCEPT !.failed = @ + failed]
           /\ apiCache' = CacheAfter(gen.code, apiCache, latest, history)
           /\ lookups' = Append(lookups,
                  [category |-> category, step |-> "searchDetails",
                   code |-> gen.code, result |-> fundDetails.k])
           /\ gen' = IF fundDetails.k = "object" THEN Resolved(gen, fundDetails)
                     ELSE Unresolved(gen)
    /\ UNCHANGED <<form, currentMode, out, call, ret, currentPortfolio, adds, localStorage, onboardingState>>

RECURSIVE WeightedCAGR(_, _, _)
WeightedCAGR(portfolio, expectedReturn, i) ==
    IF i > Len(portfolio) THEN Int2Num(0)
    ELSE Add(WeightedCAGR(portfolio, expectedReturn, i + 1),
             Div(Mul(AutoReturnRate(portfolio[i], expectedReturn),
                     Int2Num(portfolio[i].allocation)), Num100))

\* generateAutoPortfolio after the await: the empty portfolio is reported,
\* any other is shown with totalInvested, each fund's rate and the weighted
\* CAGR.  (The
\* future values, powers over tenure * 12 months, are not part of the record.)
displayAutoResults ==
    /\ gen.pc = "returned"
    /\ gen' = [gen EXCEPT !.pc = "done"]
    /\ out' = IF Len(gen.portfolio) = 0 THEN [view |-> "empty"]
              ELSE [view |-> "results",
                    portfolio |-> gen.portfolio,
                    totalInvested |-> Mul(Mul(gen.budget, Num12), gen.tenure),
                    tenure |-> gen.tenure,
                    returnRates |-> [i \in 1..Len(gen.portfolio) |->
                        AutoReturnRate(gen.portfolio[i], gen.expectedReturn)],
                    weightedCAGR |-> WeightedCAGR(gen.portfolio, gen.expectedReturn, 1)]
    /\ UNCHANGED <<form, currentMode, call, ret, lookups, apiCache, env,
                   currentPortfolio, adds, localStorage, onboardingState>>

NextAuto ==
    \/ generateAutoPortfolio
    \/ CandidateLookup
    \/ FallbackSearch
    \/ FallbackLookup
    \/ displayAutoResults

SpecAuto == InitAuto /\ [][NextAuto]_vars

---------------------------------------------------------------------------
(* Manual mode: addFundToPortfolioBySchemeCode and removeFundFromPortfolio *)

FundLimit == 10      \* currentPortfolio.funds.length >= 10
MaxCode == 12        \* the scheme codes offered by the search are 1 .. MaxCode
MaxClicks == 2       \* the user clicks at most MaxClicks times

\* the codes the user picks from the search results: the first one, and
\* those after the FundLimit-th
ManualCodes == { ToString(i) : i \in {1} \cup ((FundLimit + 1)..MaxCode) }

\* how a request of getFundDetails ends for addFundToPortfolioBySchemeCode:
\* a response that is not ok and a thrown error are caught alike
AddOutcomes == {"ok", "throws"}

\* newFund of addFundToPortfolioBySchemeCode
NewFund(fundDetails) ==
    [schemeCode |-> fundDetails.schemeCode,
     name |-> fundDetails.name,
     category |-> fundDetails.category,
     cagr1y |-> fundDetails.cagr1y,
     cagr3y |-> fundDetails.cagr3y,
     cagr5y |-> fundDetails.cagr5y,
     sipAmount |-> Int2Num(1000),
     allocation |-> Int2Num(10),
     stepUpEnabled |-> FALSE,
     stepUpRate |-> 10,
     isNFO |-> /\ Falsy(fundDetails.cagr1y) /\ Falsy(fundDetails.cagr3y)
               /\ Falsy(fundDetails.cagr5y),
     isDirect |-> FactsOf(fundDetails.name).isDirect,
     isGrowth |-> FactsOf(fundDetails.name).isGrowth]

\* analyzeManualPortfolio: the rate each fund is projected at.  (The corpus,
\* compounded over tenure * 12 months, is not part of the record.)
analyzeManualPortfolio(funds) ==
    [view |-> "manualResults",
     returnRates |-> [i \in 1..Len(funds) |-> ManualReturnRate(funds[i])]]

\* the results area after the funds changed
ManualView(funds) ==
    IF Len(funds) > 0 THEN analyzeManualPortfolio(funds) ELSE [view |-> "noPortfolio"]

\* funds.splice(index, 1), index counted from 0
Splice(funds, index) ==
    SubSeq(funds, 1, index) \o SubSeq(funds, index + 2, Len(funds))

\* x.toFixed(2): the nearest multiple of 1/100, a tie going away from zero;
\* the string is kept as the number it writes ("NaN", "Infinity" as they are)
toFixed2(x) ==
    IF x.k # "fin" THEN x
    ELSE LET r == (200 * Abs(x.n) + x.d) \div (2 * x.d)
         IN IF r = 0 THEN Zero(x.neg) ELSE Fin(IF x.neg THEN -r ELSE r, 100)

\* funds.reduce((sum, fund) => sum + fund.sipAmount, 0)
RECURSIVE SumSip(_, _)
SumSip(funds, i) ==
    IF i = 0 THEN Int2Num(0) ELSE Add(SumSip(funds, i - 1), funds[i].sipAmount)

\* the manual page: the funds of currentPortfolio, the totalBudget field
\* (kept as the number its text writes) and the equalSplit checkbox
ManualPage(funds, totalBudget, equalSplit) ==
    [funds |-> funds, totalBudget |-> totalBudget, equalSplit |-> equalSplit]

\* updateTotalBudget(): nothing for an empty portfolio; otherwise the field
\* takes the sum of the SIP amounts and every fund its share of it
updateTotalBudget(page) ==
    IF Len(page.funds) = 0 THEN page
    ELSE LET totalSIP == SumSip(page.funds, Len(page.funds))
         IN [page EXCEPT
                !.totalBudget = totalSIP,
                !.funds = [i \in 1..Len(page.funds) |->
                              [page.funds[i] EXCEPT !.allocation =
                                  toFixed2(Mul(Div(page.funds[i].sipAmount, totalSIP),
                                               Num100))]]]

\* renderFundsList without its closing call of updateTotalBudget()
renderFundsListCardsOnly(page) == page

\* renderFundsList(): the empty list is shown and nothing else happens for
\* an empty portfolio; otherwise the cards are drawn and updateTotalBudget()
\* is called
renderFundsList(page) ==
    IF Len(page.funds) = 0 THEN page ELSE updateTotalBudget(page)

\* a portfolio the user has built by adding the funds 1 .. k one after another
RECURSIVE FundsUpTo(_)
FundsUpTo(k) ==
    IF k = 0 THEN << >>
    ELSE renderFundsList(
             ManualPage(Append(FundsUpTo(k - 1),
                               NewFund(getFundDetails(ToString(k), EmptyCache, "ok", "ok"))),
                        NaN, FALSE)).funds

\* the totalBudget field of the page before any fund is added: empty or 10000
BudgetFieldValues == { NaN, Int2Num(10000) }

\* what the user types into the SIP amount of a fund card
AmountValues == { "0", "500", "2000" }

\* The page with a portfolio of no fund, of one fund less than the limit, or
\* of as many funds as the limit, and no call under way.
InitManual ==
    /\ \E k \in {0, FundLimit - 1, FundLimit} :
        /\ currentPortfolio = [funds |-> FundsUpTo(k)]
        /\ apiCache = [latest |-> { ToString(i) : i \in 1..k },
                       navData |-> { ToString(i) : i \in 1..k }]
        /\ out = IF k = 0 THEN NoView ELSE analyzeManualPortfolio(FundsUpTo(k))
        /\ \E field \in BudgetFieldValues :
             form = [totalBudget |-> IF k = 0 THEN field
                                     ELSE SumSip(FundsUpTo(k), k),
                     equalSplit |-> FALSE]
    /\ adds = {}
    /\ localStorage = EmptyStorage
    /\ onboardingState = OnboardingDeclared
    /\ env = [failed |-> 0, clicks |-> 0]
    /\ gen = NoGeneration
    /\ lookups = << >>
    /\ currentMode = "forward"
    /\ call = NoCall
    /\ ret = NotReturned

\* addFundToPortfolioBySchemeCode(schemeCode) up to its await: a full
\* portfolio is refused with an alert, a fund already held is passed over,
\* any other call goes on to fetch the fund's details
addFundToPortfolioBySchemeCode ==
    /\ env.clicks < MaxClicks
    /\ \E schemeCode \in ManualCodes :
        adds' = IF Len(currentPortfolio.funds) >= FundLimit THEN adds
                ELSE IF \E i \in 1..Len(currentPortfolio.funds) :
                            currentPortfolio.funds[i].schemeCode = schemeCode
                     THEN adds
                ELSE adds \cup { [id |-> env.clicks, schemeCode |-> schemeCode] }
    /\ env' = [env EXCEPT !.clicks = @ + 1]
    /\ UNCHANGED <<form, currentMode, out, call, ret, gen, lookups, apiCache,
                   currentPortfolio, localStorage, onboardingState>>

\* await getFundDetails(schemeCode) answers one of the calls under way: the
\* fund is pushed and the portfolio analysed again, or the failure is
\* reported with an alert and nothing is added
AddFundResumes ==
    \E a \in adds : \E latest \in AddOutcomes, history \in AddOutcomes :
        LET fundDetails == getFundDetails(a.schemeCode, apiCache, latest, history)
            page == IF fundDetails.k = "object"
                    THEN renderFundsList(
                             ManualPage(Append(currentPortfolio.funds, NewFund(fundDetails)),
                                        form.totalBudget, form.equalSplit))
                    ELSE ManualPage(currentPortfolio.funds, form.totalBudget,
                                    form.equalSplit)
        IN /\ adds' = adds \ {a}
           /\ apiCache' = CacheAfter(a.schemeCode, apiCache, latest, history)
           /\ currentPortfolio' = [currentPortfolio EXCEPT !.funds = page.funds]
           /\ form' = [form EXCEPT !.totalBudget = page.totalBudget]
           /\ out' = IF fundDetails.k = "object" THEN analyzeManualPortfolio(page.funds)
                     ELSE out
           /\ UNCHANGED <<currentMode, call, ret, gen, lookups, env, localStorage, onboardingState>>

\* the cards the user removes or edits: the first and the last of the list
EditedCards(funds) == { i \in {0, Len(funds) - 1} : i >= 0 }

\* removeFundFromPortfolio(index), confirmed or not by the user
removeFundFromPortfolio ==
    /\ env.clicks < MaxClicks
    /\ \E index \in EditedCards(currentPortfolio.funds) : \E confirmed \in BOOLEAN :
        LET page == IF confirmed
                    THEN renderFundsList(
                             ManualPage(Splice(currentPortfolio.funds, index),
                                        form.totalBudget, form.equalSplit))
                    ELSE ManualPage(currentPortfolio.funds, form.totalBudget,
                                    form.equalSplit)
        IN /\ currentPortfolio' = [currentPortfolio EXCEPT !.funds = page.funds]
           /\ form' = [form EXCEPT !.totalBudget = page.totalBudget]
           /\ out' = IF confirmed THEN ManualView(page.funds) ELSE out
    /\ env' = [env EXCEPT !.clicks = @ + 1]
    /\ UNCHANGED <<currentMode, call, ret, gen, lookups, apiCache, adds, localStorage, onboardingState>>

\* updateFundAmount(index, value), the onchange of a card's SIP amount
updateFundAmount ==
    /\ env.clicks < MaxClicks
    /\ \E index \in EditedCards(currentPortfolio.funds) : \E value \in AmountValues :
        LET page == updateTotalBudget(
                        ManualPage([currentPortfolio.funds EXCEPT
                                       ![index + 1].sipAmount = parseFloat(value)],
                                   form.totalBudget, form.equalSplit))
        IN /\ currentPortfolio' = [currentPortfolio EXCEPT !.funds = page.funds]
           /\ form' = [form EXCEPT !.totalBudget = page.totalBudget]
           /\ out' = analyzeManualPortfolio(page.funds)
    /\ env' = [env EXCEPT !.clicks = @ + 1]
    /\ UNCHANGED <<currentMode, call, ret, gen, lookups, apiCache, adds, localStorage, onboardingState>>

\* toggleEqualSplit(): the checkbox is flipped; when it is then checked and
\* there are funds, each takes Math.round(totalBudget / n) and the list is
\* rendered again
toggleEqualSplit ==
    /\ env.clicks < MaxClicks
    /\ LET funds == currentPortfolio.funds
           checked == ~form.equalSplit
           totalBudget == OrElse(form.totalBudget, Int2Num(10000))
           equalAmount == Round(Div(totalBudget, Int2Num(Len(funds))))
           split == [i \in 1..Len(funds) |->
                        [funds[i] EXCEPT
                            !.sipAmount = equalAmount,
                            !.allocation = toFixed2(Div(Num100, Int2Num(Len(funds))))]]
           page == IF checked /\ Len(funds) > 0
                   THEN renderFundsList(ManualPage(split, form.totalBudget, checked))
                   ELSE ManualPage(funds, form.totalBudget, checked)
       IN /\ currentPortfolio' = [currentPortfolio EXCEPT !.funds = page.funds]
          /\ form' = [totalBudget |-> page.totalBudget, equalSplit |-> checked]
          /\ out' = IF checked /\ Len(funds) > 0 THEN analyzeManualPortfolio(page.funds)
                    ELSE out
    /\ env' = [env EXCEPT !.clicks = @ + 1]
    /\ UNCHANGED <<currentMode, call, ret, gen, lookups, apiCache, adds, localStorage, onboardingState>>

NextManual ==
    \/ addFundToPortfolioBySchemeCode
    \/ AddFundResumes
    \/ removeFundFromPortfolio
    \/ updateFundAmount
    \/ toggleEqualSplit

SpecManual == InitManual /\ [][NextManual]_vars

---------------------------------------------------------------------------
(* The onboarding wizard of the calculator page                            *)

MaxWizardClicks == 7     \* the user clicks at most MaxWizardClicks times

\* the wizard's modal: whether it is in the document, the n of the text
\* "Step n" beside "of totalSteps", whether the Next button is disabled, and
\* the steps at which completeOnboarding was called
WizardView(modal, stepText, nextDisabled, completedAt) ==
    [view |-> "onboarding", modal |-> modal, stepText |-> stepText,
     nextDisabled |-> nextDisabled, completedAt |-> completedAt]

\* renderOnboardingStep(): the step text is currentStep + 1; case 1 disables
\* Next until a goal is chosen, cases 2 to 4 enable it, case 0 leaves the
\* button as it was
renderOnboardingStep(state, view) ==
    LET step == state.currentStep
    IN [view EXCEPT
           !.stepText = step + 1,
           !.nextDisabled = IF step = 1 THEN state.data.goal = "null"
                            ELSE IF step \in 2..4 THEN FALSE
                            ELSE view.nextDisabled]

\* showOnboarding() on the first visit: the modal as its markup is written
\* ("Step 1", Next enabled), then renderOnboardingStep()
InitOnboarding ==
    /\ onboardingState = OnboardingDeclared
    /\ out = renderOnboardingStep(OnboardingDeclared, WizardView(TRUE, 1, FALSE, {}))
    /\ env = [failed |-> 0, clicks |-> 0]
    /\ form = NoForm
    /\ currentMode = "forward"
    /\ call = NoCall
    /\ ret = NotReturned
    /\ gen = NoGeneration
    /\ lookups = << >>
    /\ apiCache = EmptyCache
    /\ currentPortfolio = [funds |-> << >>]
    /\ adds = {}
    /\ localStorage = EmptyStorage

\* a click on a control of the modal
WizardClick ==
    /\ out.modal
    /\ env.clicks < MaxWizardClicks
    /\ env' = [env EXCEPT !.clicks = @ + 1]

WizardRest == <<form, call, ret, gen, lookups, apiCache, currentPortfolio, adds,
                localStorage>>

\* applyOnboardingSettings(): the mode setMode leaves in currentMode
AppliedMode(data) == IF data.goal = "corpus" THEN "reverse" ELSE "forward"

\* nextStep(), the onclick of the Next button (a disabled button is not
\* clicked): below totalSteps the step is incremented and rendered, otherwise
\* completeOnboarding() applies the settings and removes the modal
nextStep ==
    /\ WizardClick
    /\ ~out.nextDisabled
    /\ IF onboardingState.currentStep < onboardingState.totalSteps
       THEN /\ onboardingState' = [onboardingState EXCEPT !.currentStep = @ + 1]
            /\ out' = renderOnboardingStep(onboardingState', out)
            /\ UNCHANGED currentMode
       ELSE /\ out' = [out EXCEPT !.modal = FALSE,
                                  !.completedAt = @ \cup {onboardingState.currentStep}]
            /\ currentMode' = AppliedMode(onboardingState.data)
            /\ UNCHANGED onboardingState
    /\ UNCHANGED WizardRest

\* previousStep(), the onclick of the Back button, shown from step 1 on
previousStep ==
    /\ WizardClick
    /\ IF onboardingState.currentStep > 0
       THEN /\ onboardingState' = [onboardingState EXCEPT !.currentStep = @ - 1]
            /\ out' = renderOnboardingStep(onboardingState', out)
       ELSE UNCHANGED <<onboardingState, out>>
    /\ UNCHANGED <<currentMode, WizardRest>>

\* skipOnboarding(), confirmed or not by the user
skipOnboarding ==
    /\ WizardClick
    /\ \E confirmed \in BOOLEAN :
        out' = IF confirmed THEN [out EXCEPT !.modal = FALSE] ELSE out
    /\ UNCHANGED <<onboardingState, currentMode, WizardRest>>

\* selectGoalType(goal), the onclick of the goal cards of step 1
selectGoalType ==
    /\ WizardClick
    /\ onboardingState.currentStep = 1
    /\ \E goal \in {"corpus", "return"} :
        /\ onboardingState' = [onboardingState EXCEPT !.data.goal = goal]
        /\ out' = renderOnboardingStep(onboardingState', out)
    /\ UNCHANGED <<currentMode, WizardRest>>

\* setDuration(years), the onclick of the preset buttons of step 2
setDuration ==
    /\ WizardClick
    /\ onboardingState.currentStep = 2
    /\ \E years \in {5, 10, 15, 20} :
        onboardingState' = [onboardingState EXCEPT !.data.duration = years]
    /\ UNCHANGED <<out, currentMode, WizardRest>>

\* selectRiskType(risk), the onclick of the risk cards of step 3
selectRiskType ==
    /\ WizardClick
    /\ onboardingState.currentStep = 3
    /\ \E risk \in {"low", "medium", "high"} :
        /\ onboardingState' = [onboardingState EXCEPT !.data.risk = risk]
        /\ out' = renderOnboardingStep(onboardingState', out)
    /\ UNCHANGED <<currentMode, WizardRest>>

NextOnboarding ==
    \/ nextStep
    \/ previousStep
    \/ skipOnboarding
    \/ selectGoalType
    \/ setDuration
    \/ selectRiskType

SpecOnboarding == InitOnboarding /\ [][NextOnboarding]_vars

---------------------------------------------------------------------------
(* The caches of NAV data: apiCache in memory, mf_cache_ in localStorage   *)
(* The clock counts hours; one scheme is looked up.                        *)

CACHE_DURATION == 24     \* 24 * 60 * 60 * 1000 ms
LatestMaxAge == 1        \* 3600000 ms
HistoryMaxAge == 24      \* 86400000 ms

MaxNow == 48             \* the clock runs from 0 to MaxNow hours
MaxTicks == 4            \* the clock is advanced at most MaxTicks times
MaxCacheCalls == 4       \* at most MaxCacheCalls calls are made
TickSteps == {1, 23}     \* the hours that pass between two calls

\* the data the provider answers at `now`; `fetched` records when
ProviderData(kind, now) == [k |-> "object", kind |-> kind, fetched |-> now]

StoredEntry(value, now) == [k |-> "entry", value |-> value, timestamp |-> now]

\* getCachedData(key) at `now`: the value returned and the storage after it
getCachedData(store, key, now) ==
    IF store[key].k = "none" THEN [value |-> NoObject, store |-> store]
    ELSE IF now - store[key].timestamp > CACHE_DURATION
         THEN [value |-> NoObject, store |-> [store EXCEPT ![key] = NoEntry]]
    ELSE [value |-> store[key].value, store |-> store]

\* setCachedData(key, value) at `now`
setCachedData(store, key, value, now) ==
    [store EXCEPT ![key] = StoredEntry(value, now)]

\* getLatestNAV / getNAVHistory at `now`: the entry of apiCache[field] is
\* served while younger than maxAge; otherwise the provider is asked, and
\* only its ok answer is stored and stamped
InMemoryRead(cache, field, maxAge, now, outcome) ==
    IF cache[field].k = "entry" /\ now - cache[field].timestamp < maxAge
    THEN [value |-> cache[field].value, cache |-> cache, from |-> "memory"]
    ELSE IF outcome = "ok"
         THEN [value |-> ProviderData(field, now),
               cache |-> [cache EXCEPT ![field] =
                              StoredEntry(ProviderData(field, now), now)],
               from |-> "provider"]
    ELSE [value |-> NoObject, cache |-> cache, from |-> "provider"]

getLatestNAV(cache, now, outcome) ==
    InMemoryRead(cache, "latest", LatestMaxAge, now, outcome)

getNAVHistory(cache, now, outcome) ==
    InMemoryRead(cache, "navData", HistoryMaxAge, now, outcome)

\* getLatestNAVCached / getNAVHistoryCached at `now`
getLatestNAVCached(store, cache, now, outcome) ==
    LET cached == getCachedData(store, "nav_latest", now)
        data == getLatestNAV(cache, now, outcome)
    IN IF cached.value.k = "object"
       THEN [value |-> cached.value, store |-> cached.store, cache |-> cache,
             from |-> "storage"]
       ELSE [value |-> data.value,
             store |-> IF data.value.k = "object"
                       THEN setCachedData(
                                setCachedData(cached.store, "nav_latest",
                                              data.value, now),
                                "nav_data_general", [k |-> "true"], now)
                       ELSE cached.store,
             cache |-> data.cache, from |-> data.from]

getNAVHistoryCached(store, cache, now, outcome) ==
    LET cached == getCachedData(store, "nav_history", now)
        data == getNAVHistory(cache, now, outcome)
    IN IF cached.value.k = "object"
       THEN [value |-> cached.value, store |-> cached.store, cache |-> cache,
             from |-> "storage"]
       ELSE [value |-> data.value,
             store |-> IF data.value.k = "object"
                       THEN setCachedData(cached.store, "nav_history", data.value, now)
                       ELSE cached.store,
             cache |-> data.cache, from |-> data.from]

CacheFunctions ==
    {"getLatestNAV", "getNAVHistory", "getLatestNAVCached", "getNAVHistoryCached"}

\* the page after its scripts have loaded, nothing cached
InitCache ==
    /\ env = [now |-> 0, ticks |-> 0, calls |-> 0]
    /\ apiCache = [latest |-> NoEntry, navData |-> NoEntry]
    /\ localStorage = EmptyStorage
    /\ onboardingState = OnboardingDeclared
    /\ call = NoCall
    /\ ret = NotReturned
    /\ form = NoForm
    /\ currentMode = "forward"
    /\ out = NoForm
    /\ gen = NoGeneration
    /\ lookups = << >>
    /\ currentPortfolio = [funds |-> << >>]
    /\ adds = {}

\* time passes
Tick ==
    \E dt \in TickSteps :
        /\ env.ticks < MaxTicks
        /\ env.now + dt <= MaxNow
        /\ env' = [env EXCEPT !.now = @ + dt, !.ticks = @ + 1]
        /\ UNCHANGED <<form, currentMode, out, call, ret, gen, lookups, apiCache,
                       currentPortfolio, adds, localStorage, onboardingState>>

\* the state after a call of fn that answered r
CacheCallDone(fn, r, store, cache) ==
    /\ env.calls < MaxCacheCalls
    /\ env' = [env EXCEPT !.calls = @ + 1]
    /\ call' = [fn |-> fn]
    /\ ret' = ReturnedValue([value |-> r.value, from |-> r.from, at |-> env.now])
    /\ localStorage' = store
    /\ apiCache' = cache
    /\ UNCHANGED <<form, currentMode, out, gen, lookups, currentPortfolio, adds, onboardingState>>

CallGetLatestNAV ==
    \E outcome \in Outcomes :
        LET r == getLatestNAV(apiCache, env.now, outcome)
        IN CacheCallDone("getLatestNAV", r, localStorage, r.cache)

CallGetNAVHistory ==
    \E outcome \in Outcomes :
        LET r == getNAVHistory(apiCache, env.now, outcome)
        IN CacheCallDone("getNAVHistory", r, localStorage, r.cache)

CallGetLatestNAVCached ==
    \E outcome \in Outcomes :
        LET r == getLatestNAVCached(localStorage, apiCache, env.now, outcome)
        IN CacheCallDone("getLatestNAVCached", r, r.store, r.cache)

CallGetNAVHistoryCached ==
    \E outcome \in Outcomes :
        LET r == getNAVHistoryCached(localStorage, apiCache, env.now, outcome)
        IN CacheCallDone("getNAVHistoryCached", r, r.store, r.cache)

NextCache ==
    \/ Tick
    \/ CallGetLatestNAV
    \/ CallGetNAVHistory
    \/ CallGetLatestNAVCached
    \/ CallGetNAVHistoryCached

SpecCache == InitCache /\ [][NextCache]_vars

---------------------------------------------------------------------------
(* Properties of the calculator page                                       *)

MonthlyRateOf(f) == Div(Div(f.returnRate, Num100), Num12)
LumpSumOf(f) == IF f.lumpSumEnabled THEN f.lumpSum ELSE Int2Num(0)
Positive(x) == Lt(Int2Num(0), x)
AbsNum(x) == IF x.neg THEN Neg(x) ELSE x

\* A flat monthly plan: no step-up, no lump sum, twelve periods a year.
FlatPlan(f) == ~f.stepUpEnabled /\ ~f.lumpSumEnabled /\ f.frequency = 12

\* C1: for a flat monthly plan of years >= 1 (stated at the positive rates,
\* where the closed form is defined) the final corpus of the forward
\* projection equals the annuity-due value
\* monthlyAmount x ((1+r)^n - 1)/r x (1+r), r = rate/100/12, n = years x 12.
C1_FinalCorpusIsAnnuityDue ==
    (/\ currentMode = "forward"
     /\ FlatPlan(form)
     /\ form.duration >= 1
     /\ Positive(form.returnRate)
     /\ IsFinite(form.sipAmount))
    => out.corpus = Mul(form.sipAmount,
                        FvFactor(MonthlyRateOf(form), form.duration * 12))

\* C2: round trip.  In reverse mode, for targetCorpus > 0, years >= 1 and a
\* positive rate, the flat monthly projection of the solved SIP ends within
\* 0.5 x the annuity-due factor of targetCorpus.
C2_RoundTrip ==
    (/\ currentMode = "reverse"
     /\ FlatPlan(form)
     /\ form.duration >= 1
     /\ Positive(form.returnRate)
     /\ Positive(form.targetCorpus))
    => Le(AbsNum(Sub(out.corpus, form.targetCorpus)),
          Mul(Fin(1, 2), FvFactor(MonthlyRateOf(form), form.duration * 12)))

\* C6: in reverse mode, whenever the rate is <= 0 or years <= 0, the solved
\* SIP is an explicit error outcome: it is neither NaN, nor an infinity, nor
\* a finite number.
C6_ReverseRejectsInvalidInput ==
    (/\ currentMode = "reverse"
     /\ (Le(form.returnRate, Int2Num(0)) \/ form.duration <= 0))
    => form.sipAmount.k \notin {"nan", "inf", "fin"}

\* C8: for a plan with a finite monthly amount >= 0 the projection has
\* exactly `years` rows (none for years <= 0), row i has year = i and
\* returns = corpus - invested, and invested never decreases from a row to
\* the next.
C8_YearlyRows ==
    (IsFinite(form.sipAmount) /\ ~form.sipAmount.neg) =>
        LET rows == out.yearlyData IN
        /\ Len(rows) = (IF form.duration > 0 THEN form.duration ELSE 0)
        /\ \A i \in 1..Len(rows) :
            /\ rows[i].year = i
            /\ rows[i].returns = Sub(rows[i].corpus, rows[i].invested)
            /\ i > 1 => Le(rows[i - 1].invested, rows[i].invested)

\* C8 witness: a two-year stepped-up projection has been computed.
C8_Witness ==
    /\ form.duration = 2
    /\ form.stepUpEnabled
    /\ IsFinite(form.sipAmount) /\ Positive(form.sipAmount)
    /\ Len(out.yearlyData) = 2
    /\ Lt(out.yearlyData[1].invested, out.yearlyData[2].invested)

\* C9: with annualReturnRate = 0 and a finite monthly amount, in every year
\* the corpus is a finite number equal to lumpSum + invested(year), whatever
\* the step-up, the lump sum and the frequency.
C9_ZeroRateIsPureSum ==
    (IsZero(form.returnRate) /\ IsFinite(form.sipAmount)) =>
        \A i \in 1..Len(out.yearlyData) :
            /\ IsFinite(out.yearlyData[i].corpus)
            /\ out.yearlyData[i].corpus
                 = Add(LumpSumOf(form), out.yearlyData[i].invested)

\* C9 witness: a zero-rate, quarterly, stepped-up two-year plan with a lump sum.
C9_Witness ==
    /\ IsZero(form.returnRate)
    /\ form.stepUpEnabled /\ form.lumpSumEnabled
    /\ form.frequency = 4
    /\ IsFinite(form.sipAmount) /\ Positive(form.sipAmount)
    /\ Len(out.yearlyData) = 2

---------------------------------------------------------------------------
(* Properties of the portfolio helpers                                     *)

RECURSIVE SumAllocations(_, _)
SumAllocations(allocations, i) ==
    IF i > Len(allocations) THEN 0
    ELSE allocations[i].allocation + SumAllocations(allocations, i + 1)

\* C3: every category percentage of the allocation table is >= 0, for every
\* risk, style and includeTaxSaving.
C3_AllocationsNonNegative ==
    Returned("createDiversifiedPortfolio") =>
        \A i \in 1..Len(ret.v) : ret.v[i].allocation >= 0

\* C3 witness: a table in which a subtraction was floored at 0 (high risk,
\* aggressive style, tax saving: Debt 10 - 10 - 10).
C3_Witness ==
    /\ Returned("createDiversifiedPortfolio")
    /\ call.risk = "high" /\ call.style > 66 /\ call.includeTax
    /\ AllocGet(ret.v, "Debt") = 0

\* C4: the category percentages of the allocation table sum to at most 100.
C4_AllocationsSumAtMost100 ==
    Returned("createDiversifiedPortfolio") => SumAllocations(ret.v, 1) <= 100

\* a start or end value that is missing or <= 0
NotPositive(x) == x.k = "null" \/ x.k = "nan" \/ Le(x, Int2Num(0))

\* C5: calculateCAGR returns null whenever start <= 0, end <= 0 (or either
\* is missing) or years <= 0.
C5_CagrNullOnNonPositive ==
    (/\ Returned("calculateCAGR")
     /\ (NotPositive(call.startNAV) \/ NotPositive(call.endNAV) \/ call.years <= 0))
    => ret.v = Null

Categories ==
    {"ELSS", "Large Cap", "Mid Cap", "Small Cap", "Flexi Cap", "Debt", "Hybrid",
     "Index", "Thematic", "International", "Other"}

\* whether some pattern of CATEGORY_PATTERNS matches the name
SomePatternMatches(fundName) ==
    \E i \in 1..Len(CATEGORY_PATTERNS) : PatternTest(CATEGORY_PATTERNS[i], fundName)

\* C7: detectCategory returns one tag of the closed set for every name, the
\* empty name included, and Other for a name no pattern matches.
C7_DetectCategoryTotal ==
    Returned("detectCategory") =>
        /\ ret.v \in Categories
        /\ ~SomePatternMatches(call.fundName) => ret.v = "Other"

\* C7 witness: a name no pattern matches ("Top " without a digit after it)
\* was classified as Other.
C7_Witness ==
    /\ Returned("detectCategory")
    /\ call.fundName = "Top Fund"
    /\ ret.v = "Other"

\* the percentage the style-bias rule gives category c from the base table
StyleBiasRule(base, bias, c) ==
    LET pct == AllocGet(base, c)
        floored == IF pct - 10 < 0 THEN 0 ELSE pct - 10
    IN IF bias < 33
       THEN (IF c = "Debt" THEN pct + 10 ELSE IF c = "Small Cap" THEN floored ELSE pct)
       ELSE IF bias > 66
       THEN (IF c = "Small Cap" THEN pct + 10 ELSE IF c = "Debt" THEN floored ELSE pct)
       ELSE pct

\* C16: for every style bias 0..100 on the slider as generateAutoPortfolio
\* reads it (tax saving off): below 33 Debt is the base + 10 and Small Cap
\* max(0, base - 10); above 66 Small Cap is the base + 10 and Debt
\* max(0, base - 10); from 33 to 66 the table is the base table; every other
\* category keeps its base percentage.
C16_StyleBiasAdjustment ==
    (Returned("generateAutoPortfolio") /\ ~call.includeTax) =>
        \A c \in Categories :
            AllocGet(ret.v, c)
              = StyleBiasRule(BaseAllocations(call.risk), Number(call.styleSlider), c)

\* the categories of largest percentage among those other than ELSS and Debt
LargestRemaining(allocations) ==
    { c \in Categories \ {"ELSS", "Debt"} :
        \A d \in Categories \ {"ELSS", "Debt"} :
            AllocGet(allocations, d) <= AllocGet(allocations, c) }

MinOf(a, b) == IF a < b THEN a ELSE b

\* C17: with includeTaxSaving the table has ELSS = 20, Debt reduced by
\* min(10, Debt), the largest remaining category reduced by min(10, its
\* percentage) and every other category unchanged; without it the table has
\* no ELSS entry.
C17_TaxSavingCarveOut ==
    Returned("createDiversifiedPortfolio") =>
        LET before == StyleAdjusted(BaseAllocations(call.risk), call.style) IN
        IF call.includeTax
        THEN /\ AllocGet(ret.v, "ELSS") = 20
             /\ AllocGet(ret.v, "Debt")
                  = AllocGet(before, "Debt") - MinOf(10, AllocGet(before, "Debt"))
             /\ \E largest \in LargestRemaining(before) :
                  /\ AllocGet(ret.v, largest)
                       = AllocGet(before, largest) - MinOf(10, AllocGet(before, largest))
                  /\ \A c \in Categories \ {"ELSS", "Debt", largest} :
                       AllocGet(ret.v, c) = AllocGet(before, c)
        ELSE AllocIndex(ret.v, "ELSS", 1) = 0

\* the order of the rules
RuleOrder ==
    << "ELSS", "Large Cap", "Mid Cap", "Small Cap", "Flexi Cap", "Debt", "Hybrid",
       "Index", "Thematic", "International" >>

\* C18: detectCategory returns the tag of the first rule, in the order ELSS,
\* Large Cap, Mid Cap, Small Cap, Flexi Cap, Debt, Hybrid, Index, Thematic,
\* International, whose pattern matches the name; a name matching an ELSS
\* pattern is tagged ELSS whatever later pattern it also matches.
C18_FirstMatchingRule ==
    /\ [i \in 1..Len(CATEGORY_PATTERNS) |-> CATEGORY_PATTERNS[i].category] = RuleOrder
    /\ Returned("detectCategory") =>
        LET matching == { i \in 1..Len(CATEGORY_PATTERNS) :
                            PatternTest(CATEGORY_PATTERNS[i], call.fundName) }
        IN /\ matching # {} =>
                \E first \in matching :
                    /\ \A i \in matching : first <= i
                    /\ ret.v = RuleOrder[first]
           /\ 1 \in matching => ret.v = "ELSS"

\* C18 witness: a name matching the ELSS and the Large Cap patterns, with
\* the Large Cap words first, was tagged ELSS.
C18_Witness ==
    /\ Returned("detectCategory")
    /\ call.fundName = "BluechipTax Saver"
    /\ PatternTest(CATEGORY_PATTERNS[1], call.fundName)
    /\ PatternTest(CATEGORY_PATTERNS[2], call.fundName)
    /\ ret.v = "ELSS"

\* C14: the rate a fund is projected at is its cagr5y when that is not
\* null, else its cagr3y when that is not null, else the category default of
\* its category, in the manual analysis and in the auto generation alike.
C14_ReturnRateFallback ==
    Returned("returnRate") =>
        ret.v = IF call.fund.cagr5y # Null THEN call.fund.cagr5y
                ELSE IF call.fund.cagr3y # Null THEN call.fund.cagr3y
                ELSE getCategoryReturn(call.fund.category)

\* C19: for a series sorted most recent first with positive NAVs and each
\* horizon H of 1, 3, 5 years, the CAGR is null exactly when no entry is
\* dated at or before the latest date minus H years, and otherwise it is
\* the CAGR over H years from the NAV of the latest-dated such entry to the
\* latest NAV; an empty or missing series gives null for the three horizons.
C19_HorizonReturns ==
    Returned("calculateReturns") =>
        LET navData == call.historyData.data
            DateOf(i) == parseIndianDate(navData[i].date)
            Eligible(H) ==
                { i \in 1..Len(navData) :
                    DateLe(DateOf(i), SetFullYear(DateOf(1), DateOf(1).year - H)) }
            Expected(H) ==
                IF Eligible(H) = {} THEN Null
                ELSE LET j == CHOOSE i \in Eligible(H) :
                                \A k \in Eligible(H) : DateLe(DateOf(k), DateOf(i))
                     IN calculateCAGR(parseFloat(navData[j].nav),
                                      parseFloat(navData[1].nav), H)
        IN IF Len(navData) = 0
           THEN ret.v = [cagr1y |-> Null, cagr3y |-> Null, cagr5y |-> Null]
           ELSE /\ ret.v = [cagr1y |-> Expected(1), cagr3y |-> Expected(3),
                            cagr5y |-> Expected(5)]
                /\ (ret.v.cagr1y = Null) <=> (Eligible(1) = {})
                /\ (ret.v.cagr3y = Null) <=> (Eligible(3) = {})
                /\ (ret.v.cagr5y = Null) <=> (Eligible(5) = {})

\* C19 witness: a leap-day series with two entries old enough for the
\* one-year horizon and different NAVs, none old enough for five years.
C19_Witness ==
    /\ Returned("calculateReturns")
    /\ Len(call.historyData.data) = 3
    /\ call.historyData.data[1].date = "29-02-2024"
    /\ call.historyData.data[2] = [date |-> "01-03-2023", nav |-> "1"]
    /\ call.historyData.data[3] = [date |-> "28-02-2021", nav |-> "8"]
    /\ call.historyData.data[1].nav = "8"
    /\ ret.v.cagr1y = Int2Num(700)
    /\ ret.v.cagr3y = Int2Num(0)
    /\ ret.v.cagr5y = Null

---------------------------------------------------------------------------
(* Properties of the auto mode                                             *)

\* createDiversifiedPortfolio has returned its portfolio
Finished == gen.pc \in {"returned", "done"}

\* the target categories: those of a non-zero percentage
TargetCategories ==
    { gen.allocations[j].category :
        j \in { k \in 1..Len(gen.allocations) : gen.allocations[k].allocation # 0 } }

\* the funds of the portfolio that fill category c
FundsFor(c) ==
    { i \in 1..Len(gen.portfolio) : gen.portfolio[i].role = getRoleDescription(c) }

\* the awaited results of category c, in order
LookupsOf(c) ==
    LET OfCategory(e) == e.category = c IN SelectSeq(lookups, OfCategory)

SucceededFor(c) ==
    \E k \in 1..Len(LookupsOf(c)) : LookupsOf(c)[k].result = "object"

\* every candidate of c was looked up and failed, and the fallback search
\* found nothing or the lookup of what it found failed
AllFailedFor(c) ==
    LET log == LookupsOf(c)
        n == Len(topFundsByCategoryWithBackups(c))
    IN /\ Len(log) > n
       /\ \A k \in 1..n : log[k].step = "candidate" /\ log[k].result = "null"
       /\ log[n + 1].step = "search"
       /\ \/ Len(log) = n + 1 /\ log[n + 1].result = "empty"
          \/ /\ Len(log) = n + 2 /\ log[n + 1].result = "results"
             /\ log[n + 2].step = "searchDetails" /\ log[n + 2].result = "null"

\* C11: whatever the requests to the provider do (ok, not ok, throw), no
\* failure escapes createDiversifiedPortfolio (a failed lookup is a null
\* result, a failed search an empty one, and the error view is never
\* shown), and the portfolio it returns holds exactly one fund for every
\* target category for which some lookup succeeded, none for a category
\* whose candidates and fallback all failed, and no other fund.
C11_PartialPortfolio ==
    /\ \A k \in 1..Len(lookups) : lookups[k].result \in {"object", "null", "results", "empty"}
    /\ out.view \in {"none", "loading", "empty", "results"}
    /\ Finished =>
        /\ \A c \in TargetCategories :
            IF SucceededFor(c) THEN Cardinality(FundsFor(c)) = 1
            ELSE FundsFor(c) = {} /\ AllFailedFor(c)
        /\ \A i \in 1..Len(gen.portfolio) :
            \E c \in TargetCategories : i \in FundsFor(c)

\* C11 witness: a portfolio was returned with one target category left out
\* and a later category filled.
C11_Witness ==
    /\ Finished
    /\ \E c \in TargetCategories, d \in TargetCategories :
        /\ FundsFor(c) = {} /\ AllFailedFor(c)
        /\ FundsFor(d) # {}
        /\ AllocIndex(gen.allocations, c, 1) < AllocIndex(gen.allocations, d, 1)

\* the categories an element of the returned array identifies
IdentifiedBy(result) ==
    { c \in Categories : \E i \in 1..Len(result) : result[i].role = getRoleDescription(c) }

\* C12: when a target category is left out, the value returned to
\* generateAutoPortfolio identifies that category.
C12_UnfulfilledCategorySignalled ==
    Finished =>
        \A c \in TargetCategories :
            FundsFor(c) = {} => c \in IdentifiedBy(gen.portfolio)

\* C13: in every category the candidates are looked up in their listed
\* order, each after the failure of the one before; the search is issued
\* only after all candidates failed and its result is looked up only after
\* it found something; nothing follows a successful lookup; the fund used
\* is the one of the successful lookup; a category is left without a fund
\* only if all candidates and the fallback failed.
C13_ResolutionOrder ==
    gen.pc # "idle" =>
        \A c \in TargetCategories :
            LET log == LookupsOf(c)
                categoryFunds == topFundsByCategoryWithBackups(c)
                n == Len(categoryFunds)
            IN /\ \A k \in 1..Len(log) :
                    /\ k > 1 => log[k - 1].result # "object"
                    /\ log[k].step = "candidate" =>
                            k <= n /\ log[k].code = categoryFunds[k].code
                    /\ log[k].step = "search" =>
                            /\ k = n + 1
                            /\ \A j \in 1..n : log[j].step = "candidate"
                                               /\ log[j].result = "null"
                    /\ log[k].step = "searchDetails" =>
                            /\ k = n + 2
                            /\ log[k - 1].step = "search"
                            /\ log[k - 1].result = "results"
               /\ Finished =>
                    /\ \A i \in FundsFor(c) :
                        /\ Len(log) > 0
                        /\ log[Len(log)].result = "object"
                        /\ gen.portfolio[i].schemeCode = log[Len(log)].code
                    /\ FundsFor(c) = {} => AllFailedFor(c)

\* C13 witness: one category was filled by its second candidate after the
\* first failed, another by the fund the fallback search found.
C13_Witness ==
    /\ Finished
    /\ \E c \in TargetCategories, d \in TargetCategories :
        /\ Len(LookupsOf(c)) = 2
        /\ LookupsOf(c)[1].result = "null"
        /\ LookupsOf(c)[2].step = "candidate" /\ LookupsOf(c)[2].result = "object"
        /\ FundsFor(c) # {}
        /\ Len(LookupsOf(d)) = 5
        /\ LookupsOf(d)[5].step = "searchDetails" /\ LookupsOf(d)[5].result = "object"
        /\ \E i \in FundsFor(d) : gen.portfolio[i].schemeCode = "149999"

---------------------------------------------------------------------------
(* Properties of the manual mode                                           *)

\* C15: in manual mode the portfolio never holds more than 10 funds, under
\* every interleaving of addFundToPortfolioBySchemeCode calls (those started
\* while earlier ones await their fund details included) and
\* removeFundFromPortfolio calls.
C15_AtMostTenFunds == Len(currentPortfolio.funds) <= 10

\* C20: a fund of the portfolio has isNFO = true exactly when its cagr5y is
\* null, whatever its cagr1y and cagr3y.
C20_NfoIffNoFiveYears ==
    \A i \in 1..Len(currentPortfolio.funds) :
        currentPortfolio.funds[i].isNFO = (currentPortfolio.funds[i].cagr5y = Null)

\* C21: calculateScenarios fills exactly the three scenarios of the rates 8,
\* 12 and 15, in this order, and the corpus of each equals the final corpus
\* of the forward projection of calculate for the same sipAmount, duration,
\* frequency, stepUpRate and lumpSum at that annual return rate.
FixedRates == << 8, 12, 15 >>

C21_ScenariosMatchProjection ==
    Returned("calculateScenarios") =>
        /\ Len(ret.v) = 3
        /\ ret.v[1].id = "conservativeCorpus"
        /\ ret.v[2].id = "moderateCorpus"
        /\ ret.v[3].id = "aggressiveCorpus"
        /\ \A i \in 1..3 :
              ret.v[i].corpus =
                  Projection(call.sipAmount, call.duration, Int2Num(FixedRates[i]),
                             call.frequency, call.stepUpRate, call.lumpSum).corpus

C21_Witness ==
    /\ Returned("calculateScenarios")
    /\ call.duration = 2 /\ call.frequency = 2
    /\ call.stepUpRate = Int2Num(50) /\ ~IsZero(call.lumpSum)
    /\ ret.v[1].corpus # ret.v[2].corpus
    /\ ret.v[2].corpus # ret.v[3].corpus

\* the contribution of year y: monthlyAmount in year 1, and in every later
\* year the contribution of the year before times (1 + stepUpRate/100)
RECURSIVE ContributionOfYear(_, _, _)
ContributionOfYear(monthlyAmount, stepUpRate, y) ==
    IF y <= 1 THEN monthlyAmount
    ELSE Mul(ContributionOfYear(monthlyAmount, stepUpRate, y - 1),
             Add(One, Div(stepUpRate, Num100)))

\* the sum over the years 1 .. y of that year's contribution x perYear
RECURSIVE InvestedUpTo(_, _, _, _)
InvestedUpTo(monthlyAmount, stepUpRate, perYear, y) ==
    IF y <= 0 THEN Int2Num(0)
    ELSE Add(InvestedUpTo(monthlyAmount, stepUpRate, perYear, y - 1),
             Mul(ContributionOfYear(monthlyAmount, stepUpRate, y), Int2Num(perYear)))

\* C22: in the forward projection the contribution of year 1 is the monthly
\* amount, every period of a year receives that year's contribution, and the
\* contribution of a year y >= 2 is that of year y-1 times
\* (1 + stepUpRate/100); invested at year y is the sum over the years 1..y of
\* contribution x frequency; and the fund loop of analyzeManualPortfolio with
\* step-up enabled contributes the same sequence.
C22_StepUpContributions ==
    /\ Returned("calculate") =>
          LET rows == ret.v.yearlyData
              factor == Add(One, Mul(Div(Div(call.annualReturn, Num100), Num12),
                                     Div(Num12, Int2Num(call.frequency))))
          IN \A y \in 1..Len(rows) :
                /\ rows[y].invested =
                      InvestedUpTo(call.sipAmount, call.stepUpRate, call.frequency, y)
                /\ rows[y].corpus =
                      AccruePeriods(IF y = 1 THEN call.lumpSum ELSE rows[y - 1].corpus,
                                    factor,
                                    ContributionOfYear(call.sipAmount, call.stepUpRate, y),
                                    call.frequency)
    /\ (Returned("analyzeManualPortfolio") /\ call.fund.stepUpEnabled) =>
          /\ Len(ret.v.contributions) = call.tenure
          /\ \A y \in 1..call.tenure :
                ret.v.contributions[y] =
                    ContributionOfYear(call.fund.sipAmount, call.fund.stepUpRate, y)
          /\ ret.v.totalInvested =
                Projection(call.fund.sipAmount, call.tenure, Int2Num(0), 12,
                           call.fund.stepUpRate, Int2Num(0)).totalInvested

C22_Witness ==
    /\ Returned("calculate")
    /\ call.duration = 2
    /\ call.stepUpRate = Int2Num(10)
    /\ call.annualReturn = Int2Num(400)
    /\ Len(ret.v.yearlyData) = 2
    /\ Lt(Mul(ret.v.yearlyData[1].invested, Int2Num(2)), ret.v.yearlyData[2].invested)

\* the hours between the provider's answer and the call that returned it
AgeOfReturned == ret.v.at - ret.v.value.fetched

\* C23: a cache read never returns NAV data older than the time to live of
\* the cache it is read from: data served from localStorage or from
\* apiCache.navData was fetched at most 24 hours before, and data served
\* from apiCache.latest less than 1 hour before.
C23_CachedDataIsFresh ==
    (ret.done /\ call.fn \in CacheFunctions /\ ret.v.value.k = "object") =>
        /\ ret.v.from = "storage" => AgeOfReturned <= CACHE_DURATION
        /\ (ret.v.from = "memory" /\ call.fn \in {"getNAVHistory", "getNAVHistoryCached"})
              => AgeOfReturned < HistoryMaxAge
        /\ (ret.v.from = "memory" /\ call.fn \in {"getLatestNAV", "getLatestNAVCached"})
              => AgeOfReturned < LatestMaxAge

\* C24: in manual mode no two funds of currentPortfolio.funds have the same
\* scheme code, whatever the order of the add calls, of the answers to their
\* fetches and of the removals.
C24_SchemeCodesDistinct ==
    \A i \in 1..Len(currentPortfolio.funds), j \in 1..Len(currentPortfolio.funds) :
        i # j => currentPortfolio.funds[i].schemeCode # currentPortfolio.funds[j].schemeCode

\* C25: no scheme code appears more than once in the portfolio
\* createDiversifiedPortfolio returns.
C25_PortfolioCodesDistinct ==
    Finished =>
        \A i \in 1..Len(gen.portfolio), j \in 1..Len(gen.portfolio) :
            i # j => gen.portfolio[i].schemeCode # gen.portfolio[j].schemeCode

\* C26: every fund of the returned portfolio carries as its category tag
\* the target category it was resolved for.
C26_CategoryTagIsTarget ==
    Finished =>
        \A i \in 1..Len(gen.portfolio) :
            \E c \in TargetCategories :
                /\ i \in FundsFor(c)
                /\ gen.portfolio[i].category = c

\* the sum of sipAmount over the funds i .. of a portfolio
RECURSIVE SumSipAmounts(_, _)
SumSipAmounts(portfolio, i) ==
    IF i > Len(portfolio) THEN Int2Num(0)
    ELSE Add(portfolio[i].sipAmount, SumSipAmounts(portfolio, i + 1))

\* C27: the totalInvested shown for an auto-generated portfolio is
\* 12 x tenure x the sum of sipAmount over the funds of the returned
\* portfolio, and that sum does not exceed the budget.
C27_TotalInvestedIsSumOfSips ==
    (gen.pc = "done" /\ out.view = "results") =>
        /\ out.totalInvested =
              Mul(Mul(Num12, out.tenure), SumSipAmounts(out.portfolio, 1))
        /\ Le(SumSipAmounts(out.portfolio, 1), gen.budget)

\* C28: for every gains value, negative gains included, and every fund type
\* the tax is at least 0 and at most max(gains, 0), so the post-tax corpus
\* does not exceed the corpus.
C28_TaxWithinGains ==
    IsFinite(out.totalGains) =>
        /\ Le(Int2Num(0), out.taxAmount)
        /\ Le(out.taxAmount,
              IF Lt(out.totalGains, Int2Num(0)) THEN Int2Num(0) ELSE out.totalGains)
        /\ Le(out.postTaxCorpus, out.corpus)

\* the funds of the manual portfolio and the sum of their SIP amounts
ManualFunds == currentPortfolio.funds
TotalSip == SumSip(ManualFunds, Len(ManualFunds))
ShareOf(i) == Mul(Div(ManualFunds[i].sipAmount, TotalSip), Num100)

RECURSIVE SumFundAllocations(_)
SumFundAllocations(i) ==
    IF i = 0 THEN Int2Num(0) ELSE Add(SumFundAllocations(i - 1), ManualFunds[i].allocation)

\* x is written with two decimals and lies within half a hundredth of y
TwoDecimalsOf(x, y) ==
    /\ x.k = "fin" /\ 100 % x.d = 0
    /\ Le(AbsNum(Sub(x, y)), Fin(1, 200))

PositiveSips ==
    /\ Len(ManualFunds) > 0
    /\ \A i \in 1..Len(ManualFunds) : Positive(ManualFunds[i].sipAmount)

\* C29: in manual mode, whenever the portfolio is not empty and every SIP
\* amount is positive, every fund's allocation is its share
\* sipAmount / (sum of the SIP amounts) x 100 rounded to two decimals, the
\* allocations sum to 100 up to that rounding (half a hundredth per fund),
\* and the totalBudget field holds the sum of the SIP amounts
C29_AllocationsAreShares ==
    PositiveSips =>
        /\ \A i \in 1..Len(ManualFunds) :
               TwoDecimalsOf(ManualFunds[i].allocation, ShareOf(i))
        /\ Le(AbsNum(Sub(SumFundAllocations(Len(ManualFunds)), Num100)),
              Fin(Len(ManualFunds), 200))
        /\ form.totalBudget = TotalSip

\* a tenth fund was added to nine and its amount then changed to 2000: the
\* shares are 18.18 and nine times 9.09, which sum to 99.99
C29_Witness ==
    /\ PositiveSips
    /\ Len(ManualFunds) = FundLimit
    /\ env.clicks = 2
    /\ ManualFunds[FundLimit].sipAmount = Int2Num(2000)
    /\ ManualFunds[FundLimit].allocation = Fin(1818, 100)
    /\ ManualFunds[1].allocation = Fin(909, 100)
    /\ SumFundAllocations(FundLimit) = Fin(9999, 100)
    /\ form.totalBudget = Int2Num(11000)

\* C30: in the onboarding wizard, after any sequence of nextStep and
\* previousStep from step 0, 0 <= currentStep <= totalSteps - 1, the
\* displayed "Step n" never exceeds totalSteps, and completeOnboarding is
\* called by nextStep only at the step totalSteps - 1
C30_StepWithinTotal ==
    /\ 0 <= onboardingState.currentStep
    /\ onboardingState.currentStep <= onboardingState.totalSteps - 1
    /\ out.stepText <= onboardingState.totalSteps
    /\ out.completedAt \subseteq {onboardingState.totalSteps - 1}
====
